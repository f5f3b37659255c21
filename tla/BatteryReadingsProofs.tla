----------------------- MODULE BatteryReadingsProofs -----------------------
(* What BatteryReadings shows of two batteries, for every number of them,  *)
(* whatever their files hold and however often they change.                *)
EXTENDS BatteryReadings, WellFoundedInduction, TLAPS

(* What Snapshot holds of the files it has read: integers, or nothing.     *)
IsRaw(raw) == DOMAIN raw = Fields /\ \A f \in Quantities : raw[f] \in Int \cup {None}

-----------------------------------------------------------------------------
(* The fields. *)

LEMMA ReadOrderIs ==
  /\ Len(ReadOrder) = 13 /\ DOMAIN ReadOrder = 1 .. 13 /\ DOMAIN Tracked = 1 .. 11
  /\ \A i \in 1 .. 11 : ReadOrder[i] = Tracked[i]
  /\ ReadOrder[12] = Start /\ ReadOrder[13] = End
BY DEF ReadOrder, Tracked, Limits, Start, End

LEMMA TrackedAre ==
  ToSet(Tracked) =
    {"status", "capacity", "voltage_now", "current_now", "power_now",
     "energy_now", "energy_full", "energy_full_design",
     "charge_now", "charge_full", "charge_full_design"}
BY DEF ToSet, Tracked

LEMMA FieldsAre ==
  /\ Fields = ToSet(Tracked) \cup {Start, End}
  /\ \A i \in 1 .. 13 : ReadOrder[i] \in Fields
  /\ \A f \in ToSet(Tracked) : \E i \in 1 .. 11 : ReadOrder[i] = f
  /\ Start \notin ToSet(Tracked) /\ End \notin ToSet(Tracked) /\ Start # End
  /\ ToSet(Limits) = {Start, End}
<1>1. ToSet(Limits) = {Start, End}
  BY DEF ToSet, Limits, Start, End
<1>2. Fields = {ReadOrder[i] : i \in 1 .. 13} /\ ToSet(Tracked) = {Tracked[i] : i \in 1 .. 11}
  BY ReadOrderIs DEF Fields, ToSet
<1>3. Start \notin ToSet(Tracked) /\ End \notin ToSet(Tracked) /\ Start # End
  BY TrackedAre DEF Start, End, Limits
<1>4. ASSUME NEW i \in 1 .. 13 PROVE ReadOrder[i] \in ToSet(Tracked) \cup {Start, End}
  <2>1. i \in 1 .. 11 \/ i = 12 \/ i = 13
    OBVIOUS
  <2> QED
    BY <1>2, <2>1, ReadOrderIs
<1>5. ASSUME NEW f \in ToSet(Tracked) PROVE \E i \in 1 .. 11 : ReadOrder[i] = f
  BY <1>2, ReadOrderIs
<1>6. Start \in Fields /\ End \in Fields
  BY <1>2, ReadOrderIs
<1>7. ToSet(Tracked) \subseteq Fields
  BY <1>2, <1>5
<1>8. Fields \subseteq ToSet(Tracked) \cup {Start, End}
  BY <1>2, <1>4
<1>9. \A i \in 1 .. 13 : ReadOrder[i] \in Fields
  BY <1>2
<1> QED
  BY <1>1, <1>3, <1>5, <1>6, <1>7, <1>8, <1>9

LEMMA EquivalentIsTracked ==
  ASSUME NEW f \in ToSet(Tracked)
  PROVE  Equivalent(f) \in ToSet(Tracked)
BY TrackedAre DEF Equivalent, EquivalentFields

LEMMA QuantitiesAre ==
  /\ Quantities \subseteq Fields /\ Start \in Quantities /\ End \in Quantities
  /\ {"capacity", "voltage_now", "current_now", "power_now", "energy_now", "charge_now"}
       \subseteq Quantities
BY FieldsAre, TrackedAre DEF Quantities

-----------------------------------------------------------------------------
(* Arithmetic. *)

LEMMA Division ==
  ASSUME NEW a \in Int, NEW b \in Nat \ {0}
  PROVE  a \div b \in Int /\ b * (a \div b) <= a /\ a < b * (a \div b) + b
OBVIOUS

LEMMA Product == ASSUME NEW a \in Int, NEW b \in Int PROVE a * b \in Int
OBVIOUS

\* A rounded quotient, times the divisor, is the dividend up to half a divisor.
LEMMA RoundIsNear ==
  ASSUME NEW n \in Nat, NEW d \in Nat \ {0}
  PROVE  /\ Round(n, d) \in Nat
         /\ 2 * Abs(Round(n, d) * d - n) <= d
<1> DEFINE q == Round(n, d)
           b == 2 * d
<1>1. q \in Int /\ b * q <= 2 * n + d /\ 2 * n + d < b * q + b
  <2>1. b \in Nat \ {0} /\ 2 * n + d \in Int
    OBVIOUS
  <2> QED
    BY <2>1, Division DEF Round
<1>2. q >= 0
  <2> SUFFICES ASSUME q < 0 PROVE FALSE
    BY <1>1
  <2>1. q <= -1 /\ b \in Nat
    BY <1>1
  <2> HIDE DEF q, b
  <2>2. b * q <= -b
    BY <1>1, <2>1
  <2>3. b * q \in Int
    BY <1>1, <2>1, Product
  <2> QED
    BY <1>1, <2>1, <2>2, <2>3
<1>3. b * q = 2 * (q * d)
  <2> HIDE DEF q
  <2> QED
    BY <1>1
<1>4. q * d \in Int
  <2> HIDE DEF q
  <2> QED
    BY <1>1, Product
<1>5. \A x \in Int : 2 * x <= 2 * n + d /\ 2 * n + d < 2 * x + 2 * d => 2 * Abs(x - n) <= d
  BY DEF Abs
<1>6. q \in Nat
  <2> HIDE DEF q
  <2> QED
    BY <1>1, <1>2
<1>7. 2 * Abs(q * d - n) <= d
  <2> HIDE DEF q
  <2>1. PICK x \in Int : x = q * d
    BY <1>4
  <2>2. 2 * x <= 2 * n + d /\ 2 * n + d < 2 * x + 2 * d
    BY <1>1, <1>3, <2>1
  <2> QED
    BY <1>5, <2>1, <2>2
<1> QED
  BY <1>6, <1>7

LEMMA LabelIsNear ==
  ASSUME NEW s \in Nat, s > 0
  PROVE  LET l == RuntimeLabel(s)
         IN  /\ \/ Abs(LabelSeconds(l) - s) <= (IF l.d > 0 THEN 1800 ELSE 30)
                \/ s < 60 /\ LabelSeconds(l) = 60
             /\ l.d > 0 => l.h < 24
             /\ l.d + l.h > 0 => l.m < 60
BY DEF RuntimeLabel, LabelSeconds, Abs, Round
-----------------------------------------------------------------------------
(* The directories. *)

Before == {p \in Nat \X Nat : p[1] < p[2]}

(* A set of numbers that is not empty has a least one. *)
LEMMA Least ==
  ASSUME NEW T \in SUBSET Nat, T # {}
  PROVE  \E m \in T : \A n \in T : m <= n
<1>1. OpToRel(<, Nat) = Before
  BY DEF OpToRel, Before
<1>2. PICK m \in T : \A n \in T : <<n, m>> \notin Before
  BY <1>1, NatLessThanWellFounded, WFMin
<1>3. ASSUME NEW n \in T PROVE m <= n
  <2>1. ~ n < m
    BY <1>2 DEF Before
  <2> QED
    BY <2>1
<1> QED
  BY <1>3

LEMMA FirstIsIn ==
  ASSUME NEW order \in Seq(STRING), NEW found \in SUBSET ToSet(order), found # {}
  PROVE  First(order, found) \in found
<1> DEFINE T == {i \in DOMAIN order : order[i] \in found}
<1>1. T \in SUBSET Nat /\ T # {}
  BY DEF ToSet
<1>2. PICK m \in T : \A n \in T : m <= n
  BY <1>1, Least
<1>3. Min(T) \in T
  BY <1>2 DEF Min
<1> QED
  BY <1>3 DEF First

LEMMA PreferredIsIn ==
  ASSUME NEW found \in SUBSET Names
  PROVE  Preferred(Order, found) \in found \cup {None}
BY FirstIsIn, ReadingsAssumption DEF Preferred, Names

(* The directory that is read, and the one that was discovered. *)
LEMMA ResolvedIsIn == ResolveBatteryDir(dirs, Order, Configured) \in Names \cup {None}
<1>1. Batteries(dirs, Order) \in SUBSET Names
  BY DEF Batteries, Names
<1> QED
  BY <1>1, PreferredIsIn, ReadingsAssumption DEF ResolveBatteryDir, Names

LEMMA DiscoveredIsIn ==
  LET r == Discover(dirs, Order, TLPCanSet)
  IN  /\ r.plan.paths \subseteq {Start, End}
      /\ r.plan.paths # {} => r.battery \in Names
      /\ r.battery \in Names \cup {None}
<1> DEFINE primary == PickPrimaryBattery(dirs, Order)
           found == ScannedBatteries(dirs, Order)
           pack == IF primary = None THEN Absent ELSE dirs[primary]
           plan == DetectThresholds(pack, TLPCanSet)
<1>1. found \in SUBSET Names /\ {n \in found : IsPresent(dirs[n])} \in SUBSET Names
  BY DEF ScannedBatteries, Names
<1>2. primary \in Names \cup {None}
  BY <1>1, FirstIsIn, PreferredIsIn, ReadingsAssumption DEF PickPrimaryBattery, Names
<1>3. plan.paths \subseteq {Start, End} /\ (plan.paths # {} => pack # Absent)
  BY FieldsAre DEF DetectThresholds
<1>4. Discover(dirs, Order, TLPCanSet).battery = primary /\ Discover(dirs, Order, TLPCanSet).plan = plan
  BY DEF Discover
<1> QED
  BY <1>2, <1>3, <1>4
-----------------------------------------------------------------------------
(* What enrich makes of the values that were read. *)

LEMMA EnrichedFields ==
  ASSUME NEW raw, NEW present, NEW available, NEW missing
  PROVE  LET e == Enriched(raw, present, available, missing)
         IN  /\ e.present = present
             /\ e.power = PowerWatts(raw["power_now"], raw["voltage_now"], raw["current_now"], e.status)
             /\ e.energy = OrElse(raw["energy_now"], ChargeToEnergy(raw["charge_now"], raw["voltage_now"]))
             /\ e.runtime = EstimateRuntime(present, e.status, e.energy, e.power)
             /\ e.health = Health(raw)
             /\ e.missing = FilterEquivalentMissing(missing, available)
BY DEF Enriched

LEMMA PowerIsInt ==
  ASSUME NEW power \in Int \cup {None}, NEW voltage \in Int \cup {None},
         NEW current \in Int \cup {None}, NEW status
  PROVE  PowerWatts(power, voltage, current, status) \in Int \cup {None}
<1>1. power # None => Signed(Abs(power), current, status) \in Int
  BY DEF Signed, Abs
<1>2. voltage # None /\ current # None => voltage * current \in Int
  BY Product
<1> QED
  BY <1>1, <1>2 DEF PowerWatts

LEMMA EnergyIsInt ==
  ASSUME NEW energy \in Int \cup {None}, NEW charge \in Int \cup {None},
         NEW voltage \in Int \cup {None}
  PROVE  OrElse(energy, ChargeToEnergy(charge, voltage)) \in Int \cup {None}
BY Product DEF OrElse, ChargeToEnergy

(* An answer whose estimate and its label are what RuntimeIsHonest asks for. *)
Honest(a) ==
  LET est == a.runtime
      label == RuntimeLabel(est.seconds)
  IN  /\ est.available <=> /\ a.present
                           /\ a.status = "discharging"
                           /\ a.energy # None /\ a.energy > 0
                           /\ a.power \notin {None, 0}
      /\ est.available =>
           /\ est.seconds > 0
           /\ \/ est.seconds = 1
              \/ 2 * Abs(est.seconds * Abs(a.power) - a.energy) <= Abs(a.power)
           /\ \/ Abs(LabelSeconds(label) - est.seconds) <= (IF label.d > 0 THEN 1800 ELSE 30)
              \/ est.seconds < 60 /\ LabelSeconds(label) = 60
           /\ label.d > 0 => label.h < 24
           /\ label.d + label.h > 0 => label.m < 60

LEMMA EnrichedIsHonest ==
  ASSUME NEW raw, IsRaw(raw), NEW present, NEW available, NEW missing
  PROVE  Honest(Enriched(raw, present, available, missing))
<1>1. PICK a : a = Enriched(raw, present, available, missing)
  OBVIOUS
<1>2. a.power \in Int \cup {None} /\ a.energy \in Int \cup {None}
  <2>1. /\ raw["power_now"] \in Int \cup {None} /\ raw["voltage_now"] \in Int \cup {None}
        /\ raw["current_now"] \in Int \cup {None}
        /\ raw["energy_now"] \in Int \cup {None} /\ raw["charge_now"] \in Int \cup {None}
    BY QuantitiesAre DEF IsRaw
  <2>2. a.power = PowerWatts(raw["power_now"], raw["voltage_now"], raw["current_now"], a.status)
    BY <1>1, EnrichedFields
  <2>3. a.energy = OrElse(raw["energy_now"], ChargeToEnergy(raw["charge_now"], raw["voltage_now"]))
    BY <1>1, EnrichedFields
  <2>4. PICK power \in Int \cup {None}, voltage \in Int \cup {None}, current \in Int \cup {None} :
          power = raw["power_now"] /\ voltage = raw["voltage_now"] /\ current = raw["current_now"]
    BY <2>1
  <2>5. PICK energy \in Int \cup {None}, charge \in Int \cup {None} :
          energy = raw["energy_now"] /\ charge = raw["charge_now"]
    BY <2>1
  <2>6. PowerWatts(power, voltage, current, a.status) \in Int \cup {None}
    BY PowerIsInt
  <2>7. OrElse(energy, ChargeToEnergy(charge, voltage)) \in Int \cup {None}
    BY EnergyIsInt
  <2> QED
    BY <2>2, <2>3, <2>4, <2>5, <2>6, <2>7
<1>3. a.runtime = EstimateRuntime(a.present, a.status, a.energy, a.power)
  BY <1>1, EnrichedFields
<1> DEFINE known == /\ a.present
                    /\ a.status = "discharging"
                    /\ a.energy # None /\ a.energy > 0
                    /\ a.power \notin {None, 0}
<1>4. CASE known
  <2>1. PICK q : q = Round(a.energy, Abs(a.power))
    OBVIOUS
  <2>2. a.runtime = [ available |-> TRUE, seconds |-> IF q < 1 THEN 1 ELSE q ]
    BY <1>3, <1>4, <2>1 DEF EstimateRuntime
  <2>3. a.energy \in Nat /\ Abs(a.power) \in Nat \ {0}
    BY <1>2, <1>4 DEF Abs
  <2>4. q \in Nat /\ 2 * Abs(q * Abs(a.power) - a.energy) <= Abs(a.power)
    BY <2>1, <2>3, RoundIsNear
  <2>5. PICK x \in Nat : x = a.runtime.seconds
    BY <2>2, <2>4
  <2>6. x > 0 /\ (x = 1 \/ x = q)
    BY <2>2, <2>4, <2>5
  <2>7. a.runtime.available
    BY <2>2
  <2> HIDE DEF known
  <2>8. /\ a.runtime.seconds > 0
        /\ \/ a.runtime.seconds = 1
           \/ 2 * Abs(a.runtime.seconds * Abs(a.power) - a.energy) <= Abs(a.power)
    BY <2>4, <2>5, <2>6
  <2>9. LET l == RuntimeLabel(a.runtime.seconds)
        IN  /\ \/ Abs(LabelSeconds(l) - a.runtime.seconds) <= (IF l.d > 0 THEN 1800 ELSE 30)
               \/ a.runtime.seconds < 60 /\ LabelSeconds(l) = 60
            /\ l.d > 0 => l.h < 24
            /\ l.d + l.h > 0 => l.m < 60
    BY <2>5, <2>6, LabelIsNear
  <2>10. Honest(a)
    BY <1>4, <2>7, <2>8, <2>9 DEF Honest, known
  <2> QED
    BY <1>1, <2>10
<1>5. CASE ~known
  <2>1. a.runtime = NoEstimate
    BY <1>3, <1>5 DEF EstimateRuntime
  <2>2. ~a.runtime.available
    BY <2>1 DEF NoEstimate
  <2>3. Honest(a)
    BY <1>5, <2>2 DEF Honest
  <2> QED
    BY <1>1, <2>3
<1> QED
  BY <1>4, <1>5

(* The health that is shown is of two amounts of one kind that were read. *)
LEMMA HealthOfOnePair ==
  ASSUME NEW raw, Health(raw) # None
  PROVE  \E kind \in {<<"energy_full", "energy_full_design">>, <<"charge_full", "charge_full_design">>} :
           \A i \in 1 .. 2 : raw[kind[i]] = Health(raw)[i]
<1>1. ASSUME NEW full, NEW design, HealthPercent(full, design) # None
      PROVE  HealthPercent(full, design)[1] = full /\ HealthPercent(full, design)[2] = design
  BY <1>1 DEF HealthPercent
<1>2. \A i \in 1 .. 2 : i = 1 \/ i = 2
  OBVIOUS
<1>3. \/ Health(raw) = HealthPercent(raw["energy_full"], raw["energy_full_design"])
      \/ Health(raw) = HealthPercent(raw["charge_full"], raw["charge_full_design"])
  BY DEF Health
<1>4. \/ Health(raw)[1] = raw["energy_full"] /\ Health(raw)[2] = raw["energy_full_design"]
      \/ Health(raw)[1] = raw["charge_full"] /\ Health(raw)[2] = raw["charge_full_design"]
  BY <1>1, <1>3
<1> QED
  BY <1>2, <1>4

(* The synthetic battery reads values of its own. *)
LEMMA MockIsRaw ==
  ASSUME NEW percent \in Int
  PROVE  IsRaw(MockRaw(percent))
BY DEF IsRaw, MockRaw, Quantities
-----------------------------------------------------------------------------
(* The inductive invariant. *)

Steps ==
  /\ pc \in {"open", "discover", "idle", "present", "slot", "list", "read"}
  /\ provider \in {"none", "sysfs", "mock"}
  /\ pc \in {"open", "discover"} => report = None /\ answer = None
  /\ pc \in {"present", "slot", "list", "read"} => answer = None /\ provider = "sysfs"
  /\ pc \in {"slot", "list", "read"} => chosen # None
  /\ pc = "slot" => ~snap.present
  /\ chosen \in Names \cup {None}

\* Every directory holds a pack, and what was read of one is typed.
Shapes ==
  /\ DOMAIN dirs = Names
  /\ \A n \in Names : dirs[n] = Absent \/ IsPack(dirs[n])
  /\ DOMAIN snap = {"present", "listed", "missing", "warned", "raw"}
  /\ IsRaw(snap.raw)
  /\ at \in Nat \ {0}

\* An answer is the arithmetic of what was read.
Answered ==
  answer # None =>
    IF provider = "sysfs" THEN answer = Answer(snap)
    ELSE \E percent \in Int : answer = Enriched(MockRaw(percent), TRUE, ToSet(Tracked), {})

\* A snapshot that has read a file knows what became of it, and misses none
\* that was listed while the pack stays where it is.
Accounted(f) == f \in snap.missing \/ f \in snap.warned \/ snap.raw[f] # None

ReadSoFar ==
  /\ pc = "list" => snap.missing = {}
  /\ pc = "read" /\ "snapshot" \notin torn =>
       /\ snap.listed = ListAttrNames(dirs[chosen])
       /\ \A f \in snap.missing : f \notin snap.listed
  /\ pc = "read" => \A i \in 1 .. 11 : i < at => Accounted(ReadOrder[i])

\* What the limits of the pack are while a call of Set is on its way.
Planned ==
  /\ setting.pc # "idle" => report # None
  /\ DOMAIN setting = {"pc", "start", "end"}
  /\ setting.start \in Int /\ setting.end \in Int
  /\ report # None =>
       /\ report.plan.paths \subseteq {Start, End}
       /\ report.plan.paths # {} => report.battery \in Names
  /\ setting.pc = "end" /\ "set" \notin torn /\ Start \in report.plan.paths =>
       IsPack(dirs[report.battery]) /\ dirs[report.battery][Start] = setting.start

Inv == Steps /\ Shapes /\ Answered /\ ReadSoFar /\ Planned /\ GapsAreReported

LEMMA AbsentIsNoPack == ~IsPack(Absent)
<1>1. DOMAIN Absent = {"absent"}
  BY DEF Absent
<1> QED
  BY <1>1 DEF IsPack

LEMMA InvInit == Init => Inv
<1> SUFFICES ASSUME Init PROVE Inv
  OBVIOUS
<1>1. Steps /\ Answered /\ ReadSoFar /\ GapsAreReported
  BY DEF Init, Steps, Answered, ReadSoFar, GapsAreReported
<1>2. Shapes
  <2>1. dirs \in [Names -> Packs \cup {Absent}] /\ snap = NothingRead /\ at = 1
    BY DEF Init
  <2>2. IsRaw(snap.raw)
    BY <2>1 DEF NothingRead, IsRaw, Quantities
  <2> QED
    BY <2>1, <2>2, PacksAssumption DEF Shapes, NothingRead
<1>3. Planned
  BY DEF Init, Planned
<1> QED
  BY <1>1, <1>2, <1>3 DEF Inv

\* A limit that is written leaves every directory with the files it had.
LEMMA WriteKeeps ==
  ASSUME Inv, NEW f \in {Start, End}, NEW value \in Int, NEW next, Write(f, value, next), report # None
  PROVE  /\ DOMAIN dirs' = Names
         /\ \A n \in Names : dirs'[n] = Absent \/ IsPack(dirs'[n])
         /\ \A n \in Names : ListAttrNames(dirs'[n]) = ListAttrNames(dirs[n])
         /\ setting' = [setting EXCEPT !.pc = next] \/ setting' = [setting EXCEPT !.pc = "failed"]
         /\ setting'.pc = next /\ next # "failed" /\ f \in report.plan.paths =>
              IsPack(dirs'[report.battery]) /\ dirs'[report.battery][f] = value
         /\ \A g \in {Start, End} \ {f} : IsPack(dirs[report.battery]) /\ report.battery \in Names =>
              IsPack(dirs'[report.battery]) /\ dirs'[report.battery][g] = dirs[report.battery][g]
<1> DEFINE b == report.battery
<1>1. /\ DOMAIN dirs = Names /\ \A n \in Names : dirs[n] = Absent \/ IsPack(dirs[n])
      /\ f \in report.plan.paths => b \in Names
      /\ DOMAIN setting = {"pc", "start", "end"}
  BY DEF Inv, Shapes, Planned
<1>2. CASE f \in report.plan.paths /\ Accepts(dirs[b], f, value)
  <2>1. PICK pack : pack = dirs[b]
    OBVIOUS
  <2>2. IsPack(pack) /\ pack[f] # Missing /\ pack # Absent
    BY <1>1, <1>2, <2>1 DEF Accepts
  <2>3. PICK new : new = [pack EXCEPT ![f] = value]
    OBVIOUS
  <2>4. /\ DOMAIN new = Fields \cup {"type", "present"} /\ DOMAIN pack = DOMAIN new
        /\ new[f] = value /\ \A g \in DOMAIN new \ {f} : new[g] = pack[g]
    BY <2>2, <2>3, QuantitiesAre DEF IsPack
  <2>5. IsPack(new)
    BY <2>2, <2>4, PacksAssumption, QuantitiesAre DEF IsPack
  <2>6. ListAttrNames(new) = ListAttrNames(pack)
    <3>1. new # Absent /\ value # Missing
      BY <2>5, AbsentIsNoPack, PacksAssumption
    <3> QED
      BY <2>2, <2>4, <3>1 DEF ListAttrNames
  <2>7. dirs' = [dirs EXCEPT ![b] = new] /\ setting' = [setting EXCEPT !.pc = next]
    BY <1>2, <2>1, <2>3 DEF Write
  <2>8. DOMAIN dirs' = Names /\ dirs'[b] = new /\ \A n \in Names \ {b} : dirs'[n] = dirs[n]
    BY <1>1, <1>2, <2>7
  <2>9. \A g \in {Start, End} \ {f} : dirs'[b][g] = dirs[b][g]
    BY <2>1, <2>4, <2>8, QuantitiesAre
  <2> QED
    BY <1>1, <2>1, <2>4, <2>5, <2>6, <2>7, <2>8, <2>9
<1>3. CASE ~(f \in report.plan.paths /\ Accepts(dirs[b], f, value))
  <2>1. /\ dirs' = dirs
        /\ \/ f \notin report.plan.paths /\ setting' = [setting EXCEPT !.pc = next]
           \/ setting' = [setting EXCEPT !.pc = "failed"]
    BY <1>3 DEF Write
  <2>2. setting' = [setting EXCEPT !.pc = "failed"] => setting'.pc = "failed"
    BY <1>1
  <2> QED
    BY <1>1, <2>1, <2>2
<1> QED
  BY <1>2, <1>3

\* What a step that leaves the directories and the call of Set keeps.
LEMMA SettingKeeps ==
  ASSUME Inv, UNCHANGED <<dirs, report, setting>>, "set" \in torn => "set" \in torn'
  PROVE  /\ Planned'
         /\ DOMAIN dirs' = Names /\ \A n \in Names : dirs'[n] = Absent \/ IsPack(dirs'[n])
BY DEF Inv, Planned, Shapes

\* What a step keeps that leaves the snapshot as it is.
LEMMA AnswerKeeps ==
  ASSUME Inv, UNCHANGED <<provider, chosen, snap, answer>>, "snapshot" \in torn => "snapshot" \in torn'
  PROVE  Answered' /\ GapsAreReported'
BY DEF Inv, Answered, GapsAreReported, Answer

\* What a step keeps that answers nothing.
LEMMA SilenceKeeps ==
  ASSUME answer' = None
  PROVE  Answered' /\ GapsAreReported'
BY DEF Answered, GapsAreReported

LEMMA NothingIsRaw ==
  /\ DOMAIN NothingRead = {"present", "listed", "missing", "warned", "raw"}
  /\ IsRaw(NothingRead.raw) /\ NothingRead.missing = {} /\ NothingRead.listed = {}
BY DEF NothingRead, IsRaw, Quantities

\* What an answer says is missing is what was, but for the other convention.
LEMMA AnswerIs ==
  ASSUME NEW s
  PROVE  /\ Answer(s).present = s.present
         /\ Answer(s).missing = FilterEquivalentMissing(s.missing, s.listed)
BY EnrichedFields DEF Answer

LEMMA StartKeeps ==
  ASSUME Inv, Open \/ Refresh \/ StartSnapshot
  PROVE  Inv'
<1> USE DEF Inv
<1>1. CASE Open
  <2>1. /\ UNCHANGED <<dirs, report, at, chosen, snap, answer, setting, torn>>
        /\ pc = "open" /\ pc' = "discover" /\ provider' \in {"sysfs", "mock"} /\ answer' = None
    BY <1>1 DEF Open, Steps
  <2>2. Steps' /\ Shapes' /\ ReadSoFar'
    BY <2>1 DEF Steps, Shapes, ReadSoFar
  <2> QED
    BY <2>1, <2>2, SettingKeeps, SilenceKeeps
<1>2. CASE Refresh
  <2>1. /\ UNCHANGED <<dirs, provider, at, chosen, snap, answer, setting, torn>>
        /\ pc = "discover" /\ pc' = "idle" /\ report' = Discover(dirs, Order, TLPCanSet)
    BY <1>2 DEF Refresh
  <2>2. Steps' /\ Shapes' /\ ReadSoFar'
    BY <2>1 DEF Steps, Shapes, ReadSoFar
  <2>3. setting.pc = "idle"
    BY <2>1 DEF Steps, Planned
  <2>4. Planned'
    BY <2>1, <2>3, DiscoveredIsIn DEF Planned
  <2> QED
    BY <2>1, <2>2, <2>4, AnswerKeeps
<1>3. CASE StartSnapshot
  <2>1. /\ UNCHANGED <<dirs, provider, report, at, setting>> /\ torn' = torn \ {"snapshot"}
        /\ provider = "sysfs" /\ pc' = "present" /\ snap' = NothingRead /\ answer' = None
        /\ chosen' \in Names \cup {None}
    BY <1>3, ResolvedIsIn DEF StartSnapshot
  <2>2. Steps' /\ ReadSoFar'
    BY <2>1 DEF Steps, ReadSoFar
  <2>3. Shapes'
    BY <2>1, NothingIsRaw DEF Shapes
  <2> QED
    BY <2>1, <2>2, <2>3, SettingKeeps, SilenceKeeps
<1> QED
  BY <1>1, <1>2, <1>3

LEMMA EmptyKeeps ==
  ASSUME Inv, NoBattery \/ EmptySlot
  PROVE  Inv'
<1> USE DEF Inv
<1>1. /\ UNCHANGED <<dirs, provider, report, at, chosen, setting, torn>>
      /\ pc \in {"present", "slot"} /\ pc' = "idle" /\ answer' = Answer(snap')
  BY DEF NoBattery, EmptySlot
<1>2. CASE NoBattery
  <2>1. snap' = [NothingRead EXCEPT !.missing = ToSet(Tracked)]
    BY <1>2 DEF NoBattery
  <2>2. /\ DOMAIN snap' = {"present", "listed", "missing", "warned", "raw"}
        /\ IsRaw(snap'.raw) /\ snap'.missing = ToSet(Tracked) /\ snap'.listed = {}
    BY <2>1, NothingIsRaw
  <2>3. answer'.missing = ToSet(Tracked)
    BY <1>1, <2>2, AnswerIs DEF FilterEquivalentMissing
  <2>4. GapsAreReported'
    BY <2>3 DEF GapsAreReported
  <2>5. Steps' /\ Shapes' /\ ReadSoFar'
    BY <1>1, <2>2 DEF Steps, Shapes, ReadSoFar
  <2>6. Answered'
    BY <1>1 DEF Answered, Answer, Steps
  <2> QED
    BY <1>1, <2>4, <2>5, <2>6, SettingKeeps
<1>3. CASE EmptySlot
  <2>1. snap' = [snap EXCEPT !.listed = ListAttrNames(dirs[chosen])] /\ pc = "slot"
    BY <1>3 DEF EmptySlot
  <2>2. /\ DOMAIN snap' = {"present", "listed", "missing", "warned", "raw"}
        /\ IsRaw(snap'.raw) /\ snap'.present = snap.present
    BY <2>1 DEF Shapes
  <2>3. chosen' # None /\ ~answer'.present
    BY <1>1, <2>1, <2>2, AnswerIs DEF Steps
  <2>4. GapsAreReported'
    BY <2>3 DEF GapsAreReported
  <2>5. Steps' /\ Shapes' /\ ReadSoFar'
    BY <1>1, <2>2 DEF Steps, Shapes, ReadSoFar
  <2>6. Answered'
    BY <1>1 DEF Answered, Answer, Steps
  <2> QED
    BY <1>1, <2>4, <2>5, <2>6, SettingKeeps
<1> QED
  BY <1>2, <1>3

LEMMA ReadKeeps ==
  ASSUME Inv, ReadPresent \/ ListFields \/ ReadField
  PROVE  Inv'
<1> USE DEF Inv
<1>1. /\ UNCHANGED <<dirs, provider, report, chosen, answer, setting, torn>>
      /\ pc \in {"present", "list", "read"} /\ answer' = None /\ chosen # None
      /\ chosen \in Names /\ (dirs[chosen] = Absent \/ IsPack(dirs[chosen]))
  BY DEF ReadPresent, ListFields, ReadField, Steps, Shapes
<1>2. CASE ReadPresent
  <2>1. PICK there \in BOOLEAN :
          /\ snap' = [NothingRead EXCEPT !.present = there]
          /\ pc' = IF there THEN "list" ELSE "slot"
    <3>1. (dirs[chosen] = Absent \/ IsPresent(dirs[chosen])) \in BOOLEAN
      BY DEF IsPresent
    <3> QED
      BY <1>2, <3>1 DEF ReadPresent
  <2>2. /\ DOMAIN snap' = {"present", "listed", "missing", "warned", "raw"}
        /\ IsRaw(snap'.raw) /\ snap'.present = there /\ snap'.missing = {} /\ at' = at
    BY <1>2, <2>1, NothingIsRaw DEF ReadPresent
  <2>3. Steps' /\ Shapes' /\ ReadSoFar'
    BY <1>1, <2>1, <2>2 DEF Steps, Shapes, ReadSoFar
  <2> QED
    BY <1>1, <2>3, SettingKeeps, SilenceKeeps
<1>3. CASE ListFields
  <2>1. /\ snap' = [snap EXCEPT !.listed = ListAttrNames(dirs[chosen])]
        /\ pc = "list" /\ pc' = "read" /\ at' = 1
    BY <1>3 DEF ListFields
  <2>2. /\ DOMAIN snap' = {"present", "listed", "missing", "warned", "raw"}
        /\ IsRaw(snap'.raw) /\ snap'.missing = {} /\ snap'.listed = ListAttrNames(dirs[chosen])
    BY <2>1 DEF Shapes, ReadSoFar
  <2>3. Steps' /\ Shapes'
    BY <1>1, <2>1, <2>2 DEF Steps, Shapes
  <2>4. ReadSoFar'
    BY <1>1, <2>1, <2>2 DEF ReadSoFar
  <2> QED
    BY <1>1, <2>3, <2>4, SettingKeeps, SilenceKeeps
<1>4. CASE ReadField
  <2>1. pc = "read" /\ pc' = "read" /\ at \in 1 .. 13 /\ at' = at + 1
    BY <1>4, ReadOrderIs DEF ReadField, Shapes
  <2>2. PICK f, c : f = ReadOrder[at] /\ c = Content(f)
    OBVIOUS
  <2>3. f \in Fields /\ (f \in ToSet(Limits) => at > 11) /\ DOMAIN snap.raw = Fields
    <3>1. at \in 1 .. 11 => f \in ToSet(Tracked)
      BY <2>2, ReadOrderIs DEF ToSet
    <3>2. at \in 1 .. 11 \/ at > 11
      BY <2>1
    <3> QED
      BY <2>1, <2>2, <3>1, <3>2, FieldsAre DEF Shapes, IsRaw
  <2>4. \/ c \notin {Missing, Unreadable} /\ snap' = [snap EXCEPT !.raw = [@ EXCEPT ![f] = c]]
        \/ c \in {Missing, Unreadable} /\ f \in ToSet(Limits) /\ snap' = snap
        \/ c = Missing /\ f \notin ToSet(Limits) /\ snap' = [snap EXCEPT !.missing = @ \cup {f}]
        \/ c = Unreadable /\ f \notin ToSet(Limits) /\ snap' = [snap EXCEPT !.warned = @ \cup {f}]
    BY <1>4, <2>2 DEF ReadField
  <2>5. /\ c # None /\ (f \in Quantities => c \in Int \cup {Missing, Unreadable})
        /\ c = Missing => f \notin ListAttrNames(dirs[chosen])
    <3>1. CASE dirs[chosen] = Absent
      BY <2>2, <3>1, PacksAssumption DEF Content, ListAttrNames
    <3>2. CASE dirs[chosen] # Absent
      BY <1>1, <2>2, <2>3, <3>2 DEF Content, ListAttrNames, IsPack
    <3> QED
      BY <3>1, <3>2
  <2>6. /\ DOMAIN snap' = {"present", "listed", "missing", "warned", "raw"}
        /\ snap'.present = snap.present /\ snap'.listed = snap.listed
    BY <2>4 DEF Shapes
  <2>7. /\ DOMAIN snap'.raw = Fields
        /\ \A g \in Fields \ {f} : snap'.raw[g] = snap.raw[g]
        /\ snap'.raw[f] \in {snap.raw[f], c}
        /\ snap'.raw[f] # snap.raw[f] => c \notin {Missing, Unreadable}
    BY <2>3, <2>4 DEF Shapes
  <2>8. IsRaw(snap'.raw)
    BY <2>5, <2>7, QuantitiesAre DEF IsRaw, Shapes
  <2>9. /\ snap.missing \subseteq snap'.missing /\ snap.warned \subseteq snap'.warned
        /\ snap'.missing \subseteq snap.missing \cup {f}
        /\ f \in snap'.missing /\ f \notin snap.missing => c = Missing
        /\ f \notin ToSet(Limits) => f \in snap'.missing \/ f \in snap'.warned \/ snap'.raw[f] = c
    BY <2>3, <2>4 DEF Shapes
  <2>10. Steps'
    BY <1>1, <2>1, <2>6 DEF Steps
  <2>11. Shapes'
    BY <1>1, <2>1, <2>6, <2>8 DEF Shapes
  <2>12. ASSUME NEW i \in 1 .. 11, i < at' PROVE Accounted(ReadOrder[i])'
    <3>1. CASE i < at
      <4>1. Accounted(ReadOrder[i]) /\ ReadOrder[i] \in Fields
        BY <2>1, <2>12, <3>1, FieldsAre DEF ReadSoFar
      <4> QED
        BY <2>5, <2>7, <2>9, <4>1 DEF Accounted
    <3>2. CASE i = at
      <4>1. ReadOrder[i] = f /\ f \notin ToSet(Limits)
        BY <2>2, <2>3, <3>2
      <4> QED
        BY <2>5, <2>9, <4>1 DEF Accounted
    <3> QED
      BY <2>1, <2>12, <3>1, <3>2
  <2>13. "snapshot" \notin torn => /\ snap'.listed = ListAttrNames(dirs[chosen])
                                   /\ \A g \in snap'.missing : g \notin snap'.listed
    BY <2>1, <2>5, <2>6, <2>9 DEF ReadSoFar
  <2>14. ReadSoFar'
    BY <1>1, <2>1, <2>12, <2>13 DEF ReadSoFar
  <2> QED
    BY <1>1, <2>10, <2>11, <2>14, SettingKeeps, SilenceKeeps
<1> QED
  BY <1>2, <1>3, <1>4

\* An answer to a snapshot that has read all its files.
LEMMA EnrichKeeps ==
  ASSUME Inv, Enrich
  PROVE  Inv'
<1> USE DEF Inv
<1>1. /\ UNCHANGED <<dirs, provider, report, chosen, snap, setting, torn>>
      /\ pc = "read" /\ pc' = "idle" /\ at > 13 /\ at' = 1 /\ answer' = Answer(snap)
      /\ provider = "sysfs"
  BY ReadOrderIs DEF Enrich, Steps
<1>2. Steps' /\ Shapes' /\ ReadSoFar'
  BY <1>1 DEF Steps, Shapes, ReadSoFar
<1>3. Answered'
  BY <1>1 DEF Answered, Answer
<1>4. GapsAreReported'
  <2> SUFFICES ASSUME "snapshot" \notin torn, NEW f \in ToSet(Tracked)
               PROVE  \/ f \in answer'.missing
                      \/ \E g \in {f, Equivalent(f)} : g \in snap.warned \/ snap.raw[g] # None
    BY <1>1 DEF GapsAreReported
  <2>1. \A g \in ToSet(Tracked) : Accounted(g)
    <3> SUFFICES ASSUME NEW g \in ToSet(Tracked) PROVE Accounted(g)
      OBVIOUS
    <3>1. PICK i \in 1 .. 11 : ReadOrder[i] = g
      BY FieldsAre
    <3>2. i < at
      BY <1>1 DEF Shapes
    <3> QED
      BY <1>1, <3>1, <3>2 DEF ReadSoFar
  <2>2. Equivalent(f) \in ToSet(Tracked)
    BY EquivalentIsTracked
  <2>3. answer'.missing = FilterEquivalentMissing(snap.missing, snap.listed)
    BY <1>1, AnswerIs
  <2>4. \A g \in snap.missing : g \notin snap.listed
    BY <1>1 DEF ReadSoFar
  <2> QED
    BY <2>1, <2>2, <2>3, <2>4 DEF Accounted, FilterEquivalentMissing
<1> QED
  BY <1>1, <1>2, <1>3, <1>4, SettingKeeps

LEMMA MockKeeps ==
  ASSUME Inv, MockSnapshot
  PROVE  Inv'
<1> USE DEF Inv
<1>1. /\ UNCHANGED <<dirs, provider, report, at, chosen, snap, setting, torn>>
      /\ pc = "idle" /\ pc' = pc /\ provider = "mock"
  BY DEF MockSnapshot
<1>2. PICK percent \in {62, 68, 74} : answer' = Enriched(MockRaw(percent), TRUE, ToSet(Tracked), {})
  BY DEF MockSnapshot
<1>3. Steps' /\ Shapes' /\ ReadSoFar'
  BY <1>1 DEF Steps, Shapes, ReadSoFar
<1>4. Answered'
  <2>1. percent \in Int /\ provider' # "sysfs"
    BY <1>1
  <2> QED
    BY <1>2, <2>1 DEF Answered
<1>5. GapsAreReported'
  BY <1>1 DEF GapsAreReported
<1> QED
  BY <1>1, <1>3, <1>4, <1>5, SettingKeeps

-----------------------------------------------------------------------------
(* Set, and the hardware. *)

LEMMA SetBeginKeeps ==
  ASSUME Inv, SetBegin
  PROVE  Inv'
<1> USE DEF Inv
<1>1. /\ UNCHANGED <<dirs, provider, report, pc, at, chosen, snap, answer>>
      /\ torn' = torn \ {"set"} /\ report # None
  BY DEF SetBegin, readerVars
<1>2. PICK w \in Windows : setting' = [ pc |-> "start", start |-> w.start, end |-> w.end ]
  BY DEF SetBegin
<1>3. "snapshot" \in torn <=> "snapshot" \in torn'
  BY <1>1
<1>4. Steps' /\ Shapes'
  BY <1>1 DEF Steps, Shapes
<1>5. ReadSoFar'
  BY <1>1, <1>3 DEF ReadSoFar, Accounted
<1>6. Planned'
  BY <1>1, <1>2, PacksAssumption DEF Planned
<1> QED
  BY <1>1, <1>3, <1>4, <1>5, <1>6, AnswerKeeps

LEMMA WriteStepKeeps ==
  ASSUME Inv, WriteStart \/ WriteEnd
  PROVE  Inv'
<1> USE DEF Inv
<1>1. /\ UNCHANGED <<provider, report, pc, at, chosen, snap, answer, torn>>
      /\ report # None /\ DOMAIN setting = {"pc", "start", "end"}
      /\ setting.start \in Int /\ setting.end \in Int
  BY DEF WriteStart, WriteEnd, readerVars, Planned
<1>2. PICK f \in {Start, End}, value \in Int, next \in {"end", "done"} :
        /\ Write(f, value, next)
        /\ next = "end" => f = Start /\ value = setting.start
  BY <1>1 DEF WriteStart, WriteEnd
<1>3. /\ DOMAIN dirs' = Names
      /\ \A n \in Names : dirs'[n] = Absent \/ IsPack(dirs'[n])
      /\ \A n \in Names : ListAttrNames(dirs'[n]) = ListAttrNames(dirs[n])
      /\ setting' = [setting EXCEPT !.pc = next] \/ setting' = [setting EXCEPT !.pc = "failed"]
      /\ setting'.pc = next /\ f \in report.plan.paths =>
           IsPack(dirs'[report.battery]) /\ dirs'[report.battery][f] = value
  BY <1>1, <1>2, WriteKeeps
<1>4. Steps' /\ Shapes'
  BY <1>1, <1>3 DEF Steps, Shapes
<1>5. ReadSoFar'
  <2>1. pc = "read" => chosen \in Names
    BY DEF Steps
  <2> QED
    BY <1>1, <1>3, <2>1 DEF ReadSoFar, Accounted
<1>6. Planned'
  <2>1. /\ DOMAIN setting' = {"pc", "start", "end"}
        /\ setting'.start = setting.start /\ setting'.end = setting.end
        /\ setting'.pc \in {next, "failed"}
    BY <1>1, <1>3
  <2>2. setting'.pc = "end" => next = "end" /\ f = Start /\ value = setting.start
    BY <1>2, <2>1
  <2> QED
    BY <1>1, <1>3, <2>1, <2>2 DEF Planned
<1> QED
  BY <1>1, <1>4, <1>5, <1>6, AnswerKeeps

LEMMA ChangeKeeps ==
  ASSUME Inv, Change
  PROVE  Inv'
<1> USE DEF Inv
<1>1. /\ UNCHANGED <<provider, report, pc, at, chosen, snap, answer, setting>>
      /\ "snapshot" \in torn' /\ "set" \in torn'
  BY DEF Change, readerVars
<1>2. PICK n \in Names, p \in Packs \cup {Absent} : dirs' = [dirs EXCEPT ![n] = p]
  BY DEF Change
<1>3. DOMAIN dirs' = Names /\ \A m \in Names : dirs'[m] = Absent \/ IsPack(dirs'[m])
  BY <1>2, PacksAssumption DEF Shapes
<1>4. Steps' /\ Shapes'
  BY <1>1, <1>3 DEF Steps, Shapes
<1>5. ReadSoFar'
  BY <1>1 DEF ReadSoFar, Accounted
<1>6. Planned'
  BY <1>1 DEF Planned
<1> QED
  BY <1>1, <1>4, <1>5, <1>6, AnswerKeeps

LEMMA InvStep == Inv /\ [Next]_vars => Inv'
<1> SUFFICES ASSUME Inv, [Next]_vars PROVE Inv'
  OBVIOUS
<1>1. CASE UNCHANGED vars
  <2>1. UNCHANGED <<dirs, provider, report, pc, at, chosen, snap, answer, setting, torn>>
    BY <1>1 DEF vars, readerVars
  <2>2. Steps' /\ Shapes'
    BY <2>1 DEF Inv, Steps, Shapes
  <2>3. ReadSoFar'
    BY <2>1 DEF Inv, ReadSoFar, Accounted
  <2> QED
    BY <2>1, <2>2, <2>3, SettingKeeps, AnswerKeeps DEF Inv
<1> QED
  BY <1>1, StartKeeps, EmptyKeeps, ReadKeeps, EnrichKeeps, MockKeeps, SetBeginKeeps,
     WriteStepKeeps, ChangeKeeps DEF Next

LEMMA InvAlways == Spec => []Inv
BY InvInit, InvStep, PTL DEF Spec
-----------------------------------------------------------------------------
(* What the readings promise. *)

\* RuntimeIsHonest of BatteryReadings: the estimate is the energy over the power
\* to the second, and its label that time to the minute or the hour, whatever
\* the files hold and from whichever packs they were read.
THEOREM EstimatesAreHonest == Spec => []RuntimeIsHonest
<1>1. Inv => RuntimeIsHonest
  <2> SUFFICES ASSUME Inv, answer # None PROVE Honest(answer)
    BY DEF RuntimeIsHonest, Honest
  <2>1. CASE provider = "sysfs"
    BY <2>1, EnrichedIsHonest DEF Inv, Answered, Answer, Shapes
  <2>2. CASE provider # "sysfs"
    <3>1. PICK percent \in Int : answer = Enriched(MockRaw(percent), TRUE, ToSet(Tracked), {})
      BY <2>2 DEF Inv, Answered
    <3> QED
      BY <3>1, MockIsRaw, EnrichedIsHonest
  <2> QED
    BY <2>1, <2>2
<1> QED
  BY <1>1, InvAlways, PTL

\* HealthIsOfOnePair of BatteryReadings: the health that is shown compares two
\* energies or two charges, both as they were read.
THEOREM HealthIsHonest == Spec => []HealthIsOfOnePair
<1>1. Inv => HealthIsOfOnePair
  <2> SUFFICES ASSUME Inv, provider = "sysfs", answer # None, answer.health # None
               PROVE  \E kind \in {<<"energy_full", "energy_full_design">>,
                                   <<"charge_full", "charge_full_design">>} :
                        \A i \in 1 .. 2 : snap.raw[kind[i]] = answer.health[i]
    BY DEF HealthIsOfOnePair
  <2>1. answer.health = Health(snap.raw)
    BY EnrichedFields DEF Inv, Answered, Answer
  <2> QED
    BY <2>1, HealthOfOnePair
<1> QED
  BY <1>1, InvAlways, PTL

\* GapsAreReported of BatteryReadings: a snapshot of a pack that stays where it
\* is accounts for every tracked field.
THEOREM NoGapIsHidden == Spec => []GapsAreReported
BY InvAlways, PTL DEF Inv

\* SetIsHonest of BatteryReadings: a call of Set that returns no error has put
\* in force both limits that exist, on a pack that stays where it is.
THEOREM SetHasSet == Spec => SetIsHonest
<1> DEFINE Kept == (setting.pc # "done" /\ setting'.pc = "done" /\ "set" \notin torn) =>
                     /\ Start \in report.plan.paths => dirs'[report.battery][Start] = setting.start
                     /\ End \in report.plan.paths => dirs'[report.battery][End] = setting.end
<1>1. Inv /\ [Next]_vars => Kept
  <2> SUFFICES ASSUME Inv, [Next]_vars, setting.pc # "done", setting'.pc = "done", "set" \notin torn
               PROVE  /\ Start \in report.plan.paths => dirs'[report.battery][Start] = setting.start
                      /\ End \in report.plan.paths => dirs'[report.battery][End] = setting.end
    OBVIOUS
  <2>1. CASE WriteStart
    <3>1. Write(Start, setting.start, "end") /\ report # None /\ setting.start \in Int
          /\ DOMAIN setting = {"pc", "start", "end"}
      BY <2>1 DEF WriteStart, Inv, Planned
    <3>2. setting'.pc \in {"end", "failed"}
      BY <3>1 DEF Write
    <3> QED
      BY <3>2
  <2>2. CASE WriteEnd
    <3>1. setting.pc = "end" /\ Write(End, setting.end, "done") /\ report # None /\ setting.end \in Int
      BY <2>2 DEF WriteEnd, Inv, Planned
    <3>2. Start # End
      BY FieldsAre
    <3>3. End \in report.plan.paths => dirs'[report.battery][End] = setting.end
      BY <3>1, WriteKeeps
    <3>4. Start \in report.plan.paths => /\ IsPack(dirs[report.battery]) /\ report.battery \in Names
                                         /\ dirs[report.battery][Start] = setting.start
      BY <3>1 DEF Inv, Planned
    <3>5. Start \in report.plan.paths => dirs'[report.battery][Start] = dirs[report.battery][Start]
      BY <3>1, <3>2, <3>4, WriteKeeps
    <3> QED
      BY <3>3, <3>4, <3>5
  <2>3. CASE ~(WriteStart \/ WriteEnd)
    <3>1. CASE SetBegin
      BY <3>1 DEF SetBegin
    <3>2. CASE ~SetBegin
      <4>1. setting' = setting
        BY <2>3, <3>2 DEF Next, vars, Open, Refresh, StartSnapshot, NoBattery, ReadPresent,
                          EmptySlot, ListFields, ReadField, Enrich, MockSnapshot, Change
      <4> QED
        BY <4>1
    <3> QED
      BY <3>1, <3>2
  <2> QED
    BY <2>1, <2>2, <2>3
<1>2. Inv /\ [Next]_vars => [Kept]_vars
  BY <1>1
<1> QED
  BY <1>2, InvAlways, PTL DEF Spec, SetIsHonest
===========
