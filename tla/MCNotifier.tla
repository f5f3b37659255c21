------------------------------ MODULE MCNotifier ------------------------------
(* Small instances of Notifier for TLC. *)
EXTENDS Notifier

On == [ enabled |-> TRUE, configured |-> TRUE, dryRun |-> FALSE ]
Off == [On EXCEPT !.enabled = FALSE]
Dry == [On EXCEPT !.dryRun = TRUE]
Unconfigured == [On EXCEPT !.configured = FALSE]

AllConfigs == {On, Off, Dry, Unconfigured}
=============================================================================
