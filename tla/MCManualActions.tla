---------------------------- MODULE MCManualActions ----------------------------
(* Small instances of ManualActions for TLC. *)
EXTENDS ManualActions

Ready == [ realEnabled |-> TRUE, dryRun |-> FALSE, stopEnabled |-> TRUE, cooldown |-> 1 ]

DryRun == [Ready EXCEPT !.dryRun = TRUE]

Longer == [Ready EXCEPT !.stopEnabled = FALSE, !.cooldown = 2]

Saved == {Ready, Longer, DryRun}

OnBattery == [ source |-> "BATTERY", discharging |-> TRUE ]

(* The adapter is unreadable and the battery full. *)
Unsure == [ source |-> "UNKNOWN", discharging |-> FALSE ]

Sensed == {OnBattery, Unsure}
=============================================================================
