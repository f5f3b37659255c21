-------------------------- MODULE MCSafetyController --------------------------
(* Small instances of SafetyController for TLC. *)
EXTENDS SafetyController

(* The minimum may be the critical threshold itself. *)
Base ==
  [ enabled |-> TRUE, warning |-> 20, critical |-> 10, minimum |-> 10, cooldown |-> 1,
    requireACLoss |-> TRUE, stopEnabled |-> TRUE ]

(* Thresholds within the recovery margin of each other, only alerts. *)
Tight ==
  [Base EXCEPT !.enabled = FALSE, !.warning = 11, !.minimum = 0, !.requireACLoss = FALSE]

Retuned == {Base, Tight}

On(percent) == [ percent |-> percent, discharging |-> TRUE, source |-> "BATTERY" ]

Plugged == [ percent |-> 10, discharging |-> FALSE, source |-> "AC" ]

(* The power watcher has not said anything yet. *)
NoWatcher == [ percent |-> 23, discharging |-> FALSE, source |-> "none" ]

(* Below and at the minimum and the threshold, and in and above the margins. *)
Levelled == {On(9), On(10), On(12), On(23)}

Everything == Levelled \cup {Plugged, NoWatcher}
=============================================================================
