------------------------- MODULE MCBatteryReadings -------------------------
(* Small instances of BatteryReadings for TLC. *)
EXTENDS BatteryReadings, TLC

OneSlot == <<"BAT1">>

Pack(files) ==
  [g \in Fields \cup {"type", "present"} |->
     IF g \in DOMAIN files THEN files[g]
     ELSE IF g = "type" THEN "Battery"
     ELSE IF g = "present" THEN "1" ELSE Missing]

(* Drains: the seconds on both sides of every change of a label.           *)
Seconds == {0, 1, 29, 30, 59, 89, 90, 3569, 3570, 3599, 3600, 7169, 7170, 7199,
            86369, 86370, 86399, 86400, 88199, 88200, 170999, 171000, 172799, 172800}

EnergyPacks ==
  {Pack([ status |-> "discharging", capacity |-> 50, power_now |-> w,
          energy_now |-> w * s + d, energy_full |-> 200, energy_full_design |-> 200 ]) :
     w \in {1, 3}, s \in Seconds, d \in {0, 1}}

(* A pack of the charge convention, one of both, and what may fail in it.  *)
ChargePack ==
  [ status |-> "discharging", capacity |-> 50, voltage_now |-> 2, current_now |-> -3,
    charge_now |-> 90, charge_full |-> 100, charge_full_design |-> 120 ]

ChargePacks ==
  {Pack(ChargePack),
   Pack([ChargePack EXCEPT !.status = "charging", !.current_now = 3, !.voltage_now = 3]),
   Pack([ChargePack EXCEPT !.charge_now = Unreadable, !.capacity = Unreadable]),
   Pack(ChargePack @@ [ energy_full_design |-> 300, power_now |-> 7 ]),
   Pack(ChargePack @@ [ energy_now |-> 0, energy_full |-> 250, type |-> Missing ])}

EmptySlotPack == Pack([ present |-> "0" ])

LimitedPacks ==
  {Pack([ status |-> "full", charge_control_start_threshold |-> 40,
          charge_control_end_threshold |-> 60 ]),
   Pack([ status |-> "full", charge_control_start_threshold |-> Missing,
          charge_control_end_threshold |-> 80 ])}

AllPacks == EnergyPacks \cup ChargePacks \cup LimitedPacks \cup {EmptySlotPack}

SomeWindows == {[ start |-> s, end |-> e ] : s \in {0, 30, 50, 70}, e \in {55, 80}}
=============================================================================
