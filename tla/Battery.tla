------------------------------ MODULE Battery ------------------------------
(***************************************************************************)
(* What LapGuard derives from the files of a battery: compute.go and       *)
(* Snapshot.enrich (internal/battery), the directory it reads, and what    *)
(* hardware discovery (internal/discovery) makes of the same directories.  *)
(*                                                                         *)
(* A pack is what a directory of /sys/class/power_supply holds: for each   *)
(* file its content, Missing when there is none, Unreadable when reading   *)
(* it fails.  Quantities are integers: volts, amperes, watts, and energies *)
(* and charges per second (watt-seconds), which makes the factor 3600 part *)
(* of the unit.  Files that are only passed on (cycle count, temperature,  *)
(* alarm, names) are left out.                                             *)
(***************************************************************************)
EXTENDS Integers, FiniteSets, Sequences, SequencesExt

CONSTANTS
  Missing,      (* a file that does not exist                              *)
  Unreadable,   (* a file that exists but cannot be read                   *)
  None          (* a nil pointer: no value                                 *)

(* A directory that does not exist. *)
Absent == [ absent |-> TRUE ]

(* The files Snapshot reads, in this order; TrackedFields begins them.     *)
Tracked ==
  << "status", "capacity", "voltage_now", "current_now", "power_now",
     "energy_now", "energy_full", "energy_full_design",
     "charge_now", "charge_full", "charge_full_design" >>

Limits == << "charge_control_start_threshold", "charge_control_end_threshold" >>

ReadOrder == Tracked \o Limits

Fields == ToSet(ReadOrder)

EquivalentFields ==
  [ energy_now |-> "charge_now", charge_now |-> "energy_now",
    energy_full |-> "charge_full", charge_full |-> "energy_full",
    energy_full_design |-> "charge_full_design",
    charge_full_design |-> "energy_full_design" ]

Equivalent(f) == IF f \in DOMAIN EquivalentFields THEN EquivalentFields[f] ELSE f

-----------------------------------------------------------------------------
(* Power. *)

Abs(x) == IF x < 0 THEN -x ELSE x

(* applyPowerSign *)
Signed(watts, current, status) ==
  IF status = "discharging" THEN -watts
  ELSE IF status = "charging" THEN watts
  ELSE IF current # None /\ current < 0 THEN -watts ELSE watts

PowerWatts(power, voltage, current, status) ==
  IF power # None THEN Signed(Abs(power), current, status)
  ELSE IF voltage # None /\ current # None THEN voltage * current
  ELSE None

Direction(x) == IF x > 0 THEN "charge" ELSE IF x < 0 THEN "discharge" ELSE "idle"

(* ClassifyPowerDirection *)
PowerDirection(status, current, watts) ==
  CASE status = "charging" -> "charge"
    [] status = "discharging" -> "discharge"
    [] status = "full" -> "idle"
    [] status = "not charging" -> IF current = None THEN "idle" ELSE Direction(current)
    [] OTHER -> IF current # None THEN Direction(current)
                ELSE IF watts # None THEN Direction(watts) ELSE "unknown"

PowerCalculation(hasPower, hasCurrentVoltage) ==
  IF hasPower THEN "power_now"
  ELSE IF hasCurrentVoltage THEN "current_voltage" ELSE "none"

NamingConvention(hasEnergy, hasCharge) ==
  CASE hasEnergy /\ hasCharge -> "both"
    [] hasEnergy /\ ~hasCharge -> "energy"
    [] ~hasEnergy /\ hasCharge -> "charge"
    [] OTHER -> "none"

-----------------------------------------------------------------------------
(* Health and runtime. *)

(* A percentage, as a fraction. *)
HealthPercent(full, design) ==
  IF full = None \/ design = None \/ design = 0 THEN None ELSE <<full, design>>

ChargeToEnergy(charge, voltage) ==
  IF charge = None \/ voltage = None THEN None ELSE charge * voltage

(* math.Round(n / d) *)
Round(n, d) == (2 * n + d) \div (2 * d)

NoEstimate == [ available |-> FALSE, seconds |-> 0 ]

(* Mutant: the estimate is cut, and may be zero. *)
TruncatedRuntime(present, status, energy, watts) ==
  IF /\ present
     /\ status = "discharging"
     /\ energy # None
     /\ energy > 0
     /\ watts # None
     /\ watts # 0
  THEN [ available |-> TRUE, seconds |-> energy \div Abs(watts) ]
  ELSE NoEstimate

EstimateRuntime(present, status, energy, watts) ==
  IF /\ present
     /\ status = "discharging"
     /\ energy # None
     /\ energy > 0
     /\ watts # None
     /\ watts # 0
  THEN LET rounded == Round(energy, Abs(watts))
       IN  [ available |-> TRUE, seconds |-> IF rounded < 1 THEN 1 ELSE rounded ]
  ELSE NoEstimate

(* FormatEstimatedRuntime: the days, hours and minutes it prints. *)
RuntimeLabel(seconds) ==
  LET Label(d, h, m) == [ d |-> d, h |-> h, m |-> m ]
      minutes == Round(seconds, 60)
      rest == Round(seconds % 3600, 60)
      hours == Round(seconds % 86400, 3600)
  IN  IF seconds < 3600 THEN Label(0, 0, IF minutes < 1 THEN 1 ELSE minutes)
      ELSE IF seconds < 86400
        THEN IF rest = 60 THEN Label(0, seconds \div 3600 + 1, 0)
             ELSE Label(0, seconds \div 3600, rest)
      ELSE IF hours = 24 THEN Label(seconds \div 86400 + 1, 0, 0)
           ELSE Label(seconds \div 86400, hours, 0)

LabelSeconds(l) == 86400 * l.d + 3600 * l.h + 60 * l.m

-----------------------------------------------------------------------------
(* Snapshot.enrich: raw is the value read of each field, or None. *)

OrElse(x, y) == IF x # None THEN x ELSE y

(* Mutant: the amounts are converted before health is computed. *)
HealthAfterConversion(raw) ==
  HealthPercent(
    OrElse(raw["energy_full"], ChargeToEnergy(raw["charge_full"], raw["voltage_now"])),
    OrElse(raw["energy_full_design"],
           ChargeToEnergy(raw["charge_full_design"], raw["voltage_now"])))

Health(raw) ==
  IF raw["energy_full"] # None /\ raw["energy_full_design"] # None
  THEN HealthPercent(raw["energy_full"], raw["energy_full_design"])
  ELSE HealthPercent(raw["charge_full"], raw["charge_full_design"])

(* Mutant: a field is dropped when it has an equivalent at all. *)
FilterAllEquivalents(missing, available) == {f \in missing : Equivalent(f) = f}

FilterEquivalentMissing(missing, available) ==
  {f \in missing : Equivalent(f) = f \/ Equivalent(f) \notin available}

NoStatus == ""

Enriched(raw, present, available, missing) ==
  LET status == OrElse(raw["status"], NoStatus)
      watts == PowerWatts(raw["power_now"], raw["voltage_now"], raw["current_now"], status)
      energy == OrElse(raw["energy_now"], ChargeToEnergy(raw["charge_now"], raw["voltage_now"]))
      Given(fields) == \E f \in fields : raw[f] # None
  IN  [ present |-> present,
        status |-> status,
        percent |-> raw["capacity"],
        power |-> watts,
        direction |-> PowerDirection(status, raw["current_now"], watts),
        calculation |->
          PowerCalculation(Given({"power_now"}),
                           Given({"voltage_now"}) /\ Given({"current_now"})),
        naming |->
          NamingConvention(Given({"energy_full", "energy_now", "energy_full_design"}),
                           Given({"charge_full", "charge_now", "charge_full_design"})),
        health |-> Health(raw),
        energy |-> energy,
        runtime |-> EstimateRuntime(present, status, energy, watts),
        missing |-> FilterEquivalentMissing(missing, available) ]

-----------------------------------------------------------------------------
(* The directories.  dirs maps the names of the supplies to packs; order   *)
(* lists those names the way ReadDir does.                                 *)

(* Every name the instances use begins with BAT. *)
IsBatteryDir(pack) == pack.type \in {"Battery", Missing}

Batteries(dirs, order) == {n \in ToSet(order) : dirs[n] # Absent /\ IsBatteryDir(dirs[n])}

First(order, found) == order[Min({i \in DOMAIN order : order[i] \in found})]

Preferred(order, found) ==
  IF "BAT0" \in found THEN "BAT0" ELSE IF found # {} THEN First(order, found) ELSE None

IsPresent(pack) == pack.present # "0"

(* resolveBatteryDir: the configured directory, or else BAT0 if it is one  *)
(* of several, or else the first.                                          *)
ResolveBatteryDir(dirs, order, name) ==
  IF name # None THEN IF dirs[name] # Absent THEN name ELSE None
  ELSE Preferred(order, Batteries(dirs, order))

(* Probe *)
ProbePresent(dirs, order, name) ==
  LET dir == ResolveBatteryDir(dirs, order, name)
  IN  dir # None /\ IsPresent(dirs[dir])

ListAttrNames(pack) == IF pack = Absent THEN {} ELSE {f \in Fields : pack[f] # Missing}

(* scanHardware takes a type it cannot read for a missing one. *)
ScannedBatteries(dirs, order) ==
  {n \in ToSet(order) : dirs[n] # Absent /\ dirs[n].type \in {"Battery", Missing, Unreadable}}

(* pickPrimaryBattery: BAT0 or else the first, among those present. *)
PickPrimaryBattery(dirs, order) ==
  LET found == ScannedBatteries(dirs, order)
      present == {n \in found : IsPresent(dirs[n])}
  IN  IF present # {} THEN Preferred(order, present)
      ELSE IF found # {} THEN First(order, found) ELSE None

(* detectThresholds *)
DetectThresholds(pack, tlpCanSet) ==
  LET paths == IF pack = Absent THEN {}
               ELSE {f \in ToSet(Limits) : pack[f] \notin {Missing, Unreadable}}
  IN  IF paths # {} THEN [ method |-> "sysfs", paths |-> paths ]
      ELSE [ method |-> IF tlpCanSet THEN "tlp" ELSE "none", paths |-> {} ]

(* Run: the report discovery keeps. *)
Discover(dirs, order, tlpCanSet) ==
  LET primary == PickPrimaryBattery(dirs, order)
      pack == IF primary = None THEN Absent ELSE dirs[primary]
      listed == ListAttrNames(pack)
  IN  [ battery |-> primary,
        present |-> pack # Absent /\ IsPresent(pack),
        fields |-> listed,
        plan |-> DetectThresholds(pack, tlpCanSet),
        calculation |->
          PowerCalculation("power_now" \in listed, {"current_now", "voltage_now"} \subseteq listed) ]
=============================================================================
