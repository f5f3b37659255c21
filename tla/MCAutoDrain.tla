---------------------------- MODULE MCAutoDrain ----------------------------
(* Small instances of AutoDrain for TLC. *)
EXTENDS AutoDrain, TLC

(* Armed, with real host actions on. *)
Live ==
  [ enabled |-> TRUE, threshold |-> 10, timeout |-> 1, stopEnabled |-> TRUE,
    dryRun |-> FALSE, realEnabled |-> TRUE, notifyOn |-> TRUE,
    notifyDryRun |-> FALSE, providerAllowed |-> TRUE ]

Off == [Live EXCEPT !.enabled = FALSE]

(* A dry run with a longer window. *)
DryRun == [Live EXCEPT !.dryRun = TRUE, !.timeout = 2]

Muted == [Off EXCEPT !.notifyOn = FALSE]

(* Notifications are only rehearsed. *)
Rehearsed == [Live EXCEPT !.notifyDryRun = TRUE]

OneConfig == {Live}
SwitchedOff == {Live, Off}
Settings == {Live, DryRun, Muted}
PlainOrRehearsed == {Live, Rehearsed}

Low == [ percent |-> 10, draining |-> TRUE ]

InMargin == [ percent |-> 12, draining |-> TRUE ]

OnAC == [ percent |-> 10, draining |-> FALSE ]

LowOrAC == {Low, OnAC}
EachOutcome == {Low, InMargin, OnAC}

(* Requests are interchangeable. *)
Symmetry == Permutations(Responders)
=============================================================================
