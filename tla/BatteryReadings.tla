-------------------------- MODULE BatteryReadings --------------------------
(***************************************************************************)
(* The daemon reading its battery: it chooses a provider and runs a        *)
(* discovery at its start, and then reads the files of one directory one   *)
(* by one for each snapshot, while the pack, the charger and the limits of *)
(* the pack may change between two files.  One caller of                   *)
(* thresholds.Controller.Set writes the limits the discovery found.        *)
(***************************************************************************)
EXTENDS Battery

CONSTANTS
  Order,         (* names of the directories, sorted                       *)
  Packs,         (* what a directory may hold                              *)
  Configured,    (* Config.BatteryName, or None                            *)
  TLPCanSet,     (* TLP is installed and controls this hardware            *)
  Windows,       (* arguments of Set                                       *)
  MaxChanges     (* bound: changes of a directory                          *)

ASSUME ReadingsAssumption ==
  /\ Order \in Seq(STRING) /\ None \notin ToSet(Order)
  /\ Configured \in ToSet(Order) \cup {None}
  /\ Missing # Unreadable
  /\ MaxChanges \in Nat

(* A file that is read gives an integer, the status a word.                *)
Quantities == Fields \ {"status"}

IsPack(pack) ==
  /\ DOMAIN pack = Fields \cup {"type", "present"}
  /\ \A f \in Fields : pack[f] # None
  /\ \A f \in Quantities : pack[f] \in Int \cup {Missing, Unreadable}

ASSUME PacksAssumption ==
  /\ None \notin Int \cup {Missing, Unreadable} /\ Missing \notin Int /\ Unreadable \notin Int
  /\ \A pack \in Packs : IsPack(pack)
  /\ \A w \in Windows : w.start \in Int /\ w.end \in Int

VARIABLES
  dirs,       (* /sys/class/power_supply                                   *)
  changes,    (* changes of it so far                                      *)
  provider,   (* the provider Open chose                                   *)
  report,     (* discovery.Service.last, or None                           *)
  pc,         (* the next step of the daemon: at its start, then Snapshot  *)
  at,         (* the next file Snapshot reads, in ReadOrder                *)
  chosen,     (* the directory it reads                                    *)
  snap,       (* what it has read                                          *)
  answer,     (* the snapshot it answered with, or None                    *)
  setting,    (* the call of Set                                           *)
  torn        (* history: the calls during which a directory changed       *)

readerVars == <<pc, at, chosen, snap, answer>>
vars == <<dirs, changes, provider, report, readerVars, setting, torn>>

Names == ToSet(Order)

NothingRead ==
  [ present |-> FALSE, listed |-> {}, missing |-> {}, warned |-> {},
    raw |-> [f \in Fields |-> None] ]

Init ==
  /\ dirs \in [Names -> Packs \cup {Absent}]
  /\ changes = 0
  /\ provider = "none"
  /\ report = None
  /\ pc = "open"
  /\ at = 1
  /\ chosen = None
  /\ snap = NothingRead
  /\ answer = None
  /\ setting = [ pc |-> "idle", start |-> 0, end |-> 0 ]
  /\ torn = {}

-----------------------------------------------------------------------------
(* Start of the daemon. *)

(* battery.Open with provider "auto".                                      *)
Open ==
  /\ pc = "open"
  /\ provider' = IF ProbePresent(dirs, Order, Configured) THEN "sysfs" ELSE "mock"
  /\ pc' = "discover"
  /\ UNCHANGED <<dirs, changes, report, at, chosen, snap, answer, setting, torn>>

Refresh ==
  /\ pc = "discover"
  /\ report' = Discover(dirs, Order, TLPCanSet)
  /\ pc' = "idle"
  /\ UNCHANGED <<dirs, changes, provider, at, chosen, snap, answer, setting, torn>>

-----------------------------------------------------------------------------
(* SysfsProvider.Snapshot *)

Answer(s) == Enriched(s.raw, s.present, s.listed, s.missing)

StartSnapshot ==
  /\ pc = "idle"
  /\ provider = "sysfs"
  /\ snap' = NothingRead
  /\ answer' = None
  /\ torn' = torn \ {"snapshot"}
  /\ chosen' = ResolveBatteryDir(dirs, Order, Configured)
  /\ pc' = "present"
  /\ UNCHANGED <<dirs, changes, provider, report, at, setting>>

(* No directory: every field is missing. *)
NoBattery ==
  /\ pc = "present"
  /\ chosen = None
  /\ snap' = [NothingRead EXCEPT !.missing = ToSet(Tracked)]
  /\ answer' = Answer(snap')
  /\ pc' = "idle"
  /\ UNCHANGED <<dirs, changes, provider, report, at, chosen, setting, torn>>

(* A directory that is gone by now has no file "present", and that counts  *)
(* as a pack that is there.                                                *)
ReadPresent ==
  /\ pc = "present"
  /\ chosen # None
  /\ LET there == dirs[chosen] = Absent \/ IsPresent(dirs[chosen])
     IN  /\ snap' = [NothingRead EXCEPT !.present = there]
         /\ pc' = IF there THEN "list" ELSE "slot"
  /\ UNCHANGED <<dirs, changes, provider, report, at, chosen, answer, setting, torn>>

(* An empty slot: its files are listed and none is read. *)
EmptySlot ==
  /\ pc = "slot"
  /\ snap' = [snap EXCEPT !.listed = ListAttrNames(dirs[chosen])]
  /\ answer' = Answer(snap')
  /\ pc' = "idle"
  /\ UNCHANGED <<dirs, changes, provider, report, at, chosen, setting, torn>>

ListFields ==
  /\ pc = "list"
  /\ snap' = [snap EXCEPT !.listed = ListAttrNames(dirs[chosen])]
  /\ pc' = "read"
  /\ at' = 1
  /\ UNCHANGED <<dirs, changes, provider, report, chosen, answer, setting, torn>>

Content(f) == IF dirs[chosen] = Absent THEN Missing ELSE dirs[chosen][f]

(* note: a field that gives no value is missing or warned of. *)
ReadField ==
  /\ pc = "read"
  /\ at <= Len(ReadOrder)
  /\ LET f == ReadOrder[at]
         c == Content(f)
     IN  snap' = IF c \notin {Missing, Unreadable} THEN [snap EXCEPT !.raw = [@ EXCEPT ![f] = c]]
                 ELSE IF f \in ToSet(Limits) THEN snap
                 ELSE IF c = Missing THEN [snap EXCEPT !.missing = @ \cup {f}]
                 ELSE [snap EXCEPT !.warned = @ \cup {f}]
  /\ at' = at + 1
  /\ UNCHANGED <<dirs, changes, provider, report, pc, chosen, answer, setting, torn>>

Enrich ==
  /\ pc = "read"
  /\ at > Len(ReadOrder)
  /\ answer' = Answer(snap)
  /\ pc' = "idle"
  /\ at' = 1
  /\ UNCHANGED <<dirs, changes, provider, report, chosen, snap, setting, torn>>

(* MockProvider.Snapshot: a pack that discharges, around 68 %.             *)
MockRaw(percent) ==
  LET known == [ status |-> "discharging", capacity |-> percent, voltage_now |-> 11,
                 current_now |-> -1, power_now |-> 13, energy_now |-> 102960,
                 energy_full |-> 151560, energy_full_design |-> 174240 ]
  IN  [f \in Fields |-> IF f \in DOMAIN known THEN known[f] ELSE None]

MockSnapshot ==
  /\ pc = "idle"
  /\ provider = "mock"
  /\ \E percent \in {62, 68, 74} :
       answer' = Enriched(MockRaw(percent), TRUE, ToSet(Tracked), {})
  /\ UNCHANGED <<dirs, changes, provider, report, pc, at, chosen, snap, setting, torn>>

-----------------------------------------------------------------------------
(* Controller.Set, with the plan of the first discovery. *)

SetBegin ==
  /\ setting.pc = "idle"
  /\ report # None
  /\ report.plan.method = "sysfs"
  /\ \E w \in Windows :
       /\ w.start > 0 /\ w.end > 0 => w.start < w.end
       /\ setting' = [ pc |-> "start", start |-> w.start, end |-> w.end ]
  /\ torn' = torn \ {"set"}
  /\ UNCHANGED <<dirs, changes, provider, report, readerVars>>

Start == Limits[1]
End == Limits[2]

(* The driver: no write to a pack that is not there, nor one that would    *)
(* leave the limits the wrong way round.                                   *)
Accepts(pack, f, value) ==
  /\ pack # Absent
  /\ pack[f] \notin {Missing, Unreadable}
  /\ (f = Start /\ pack[End] \notin {Missing, Unreadable}) => value < pack[End]
  /\ (f = End /\ pack[Start] \notin {Missing, Unreadable}) => pack[Start] < value

Write(f, value, next) ==
  LET pack == dirs[report.battery]
  IN  IF f \notin report.plan.paths
      THEN dirs' = dirs /\ setting' = [setting EXCEPT !.pc = next]
      ELSE IF Accepts(pack, f, value)
      THEN /\ dirs' = [dirs EXCEPT ![report.battery] = [@ EXCEPT ![f] = value]]
           /\ setting' = [setting EXCEPT !.pc = next]
      ELSE dirs' = dirs /\ setting' = [setting EXCEPT !.pc = "failed"]

(* Mutant: the end limit is written whatever became of the start limit. *)
WriteStartAnyway ==
  /\ setting.pc = "start"
  /\ dirs' = IF Start \in report.plan.paths /\ Accepts(dirs[report.battery], Start, setting.start)
             THEN [dirs EXCEPT ![report.battery][Start] = setting.start] ELSE dirs
  /\ setting' = [setting EXCEPT !.pc = "end"]
  /\ UNCHANGED <<changes, provider, report, readerVars, torn>>

WriteStart ==
  /\ setting.pc = "start"
  /\ Write(Start, setting.start, "end")
  /\ UNCHANGED <<changes, provider, report, readerVars, torn>>

WriteEnd ==
  /\ setting.pc = "end"
  /\ Write(End, setting.end, "done")
  /\ UNCHANGED <<changes, provider, report, readerVars, torn>>

-----------------------------------------------------------------------------
(* A pack is put in or taken out, a charger plugged in, a file fails. *)
Change ==
  /\ changes < MaxChanges
  /\ changes' = changes + 1
  /\ \E n \in Names, p \in Packs \cup {Absent} : dirs' = [dirs EXCEPT ![n] = p]
  /\ torn' = {"snapshot", "set"}
  /\ UNCHANGED <<provider, report, readerVars, setting>>

Next ==
  \/ Open
  \/ Refresh
  \/ StartSnapshot
  \/ NoBattery
  \/ ReadPresent
  \/ EmptySlot
  \/ ListFields
  \/ ReadField
  \/ Enrich
  \/ MockSnapshot
  \/ SetBegin
  \/ WriteStart
  \/ WriteEnd
  \/ Change

Spec == Init /\ [][Next]_vars

-----------------------------------------------------------------------------
(* Properties. *)

(* What a snapshot estimates is the energy divided by the power, to the    *)
(* second, and what the dashboard prints of it is that time to the minute  *)
(* (to the hour beyond a day), whatever the files held when they were read *)
(* one by one.  There is an estimate whenever a pack discharges with both  *)
(* known, whichever files they came from, and never otherwise.  A label of *)
(* more than an hour has no 60 minutes, one of more than a day no 24       *)
(* hours; "60 min" (3570 to 3599 s) and "24h" (86370 to 86399 s), which    *)
(* FormatEstimatedRuntime prints, are let through.                         *)
RuntimeIsHonest ==
  answer # None =>
    LET est == answer.runtime
        label == RuntimeLabel(est.seconds)
    IN  /\ est.available <=> /\ answer.present
                             /\ answer.status = "discharging"
                             /\ answer.energy # None /\ answer.energy > 0
                             /\ answer.power \notin {None, 0}
        /\ est.available =>
             /\ est.seconds > 0
             /\ \/ est.seconds = 1
                \/ 2 * Abs(est.seconds * Abs(answer.power) - answer.energy) <= Abs(answer.power)
             /\ \/ Abs(LabelSeconds(label) - est.seconds) <= (IF label.d > 0 THEN 1800 ELSE 30)
                \/ est.seconds < 60 /\ LabelSeconds(label) = 60
             /\ label.d > 0 => label.h < 24
             /\ label.d + label.h > 0 => label.m < 60

(* The health of a pack compares two amounts of one kind: it never takes a *)
(* charge turned into an energy, which would make it follow the voltage of *)
(* the moment.  The two may be of two packs, exchanged between the reads.  *)
HealthIsOfOnePair ==
  (provider = "sysfs" /\ answer # None /\ answer.health # None) =>
    \E kind \in {<<"energy_full", "energy_full_design">>, <<"charge_full", "charge_full_design">>} :
      \A i \in 1 .. 2 : snap.raw[kind[i]] = answer.health[i]

(* A snapshot of a pack that stays where it is accounts for every tracked  *)
(* field: it, or the one of the other naming convention, was read or could *)
(* not be read (a warning), or it is listed missing (provider.go:35).      *)
GapsAreReported ==
  (answer # None /\ provider = "sysfs" /\ "snapshot" \notin torn
     /\ (answer.present \/ chosen = None)) =>
    \A f \in ToSet(Tracked) :
      \/ f \in answer.missing
      \/ \E g \in {f, Equivalent(f)} : g \in snap.warned \/ snap.raw[g] # None

(* A call of Set that returns no error has put both limits that exist in   *)
(* force, on a pack that stays where it is.  After an error the first may  *)
(* be in force without the second.                                         *)
SetIsHonest ==
  [][(setting.pc # "done" /\ setting'.pc = "done" /\ "set" \notin torn) =>
       /\ Start \in report.plan.paths => dirs'[report.battery][Start] = setting.start
       /\ End \in report.plan.paths => dirs'[report.battery][End] = setting.end]_vars

-----------------------------------------------------------------------------
(* A claim of the documentation that the code does not keep. *)

(* "auto" tries sysfs and falls back to the mock provider when no battery  *)
(* is present (factory.go:17, README.md:189).                              *)
MockOnlyWithoutBattery ==
  [][provider = "none" /\ provider' = "mock" =>
       \A n \in Names :
         dirs[n] # Absent /\ IsBatteryDir(dirs[n]) => ~IsPresent(dirs[n])]_vars
=============================================================================
