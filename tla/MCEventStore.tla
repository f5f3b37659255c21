---------------------------- MODULE MCEventStore ----------------------------
(* A small instance of EventStore for TLC. *)
EXTENDS EventStore, TLC

(* Calls and types are interchangeable. *)
Symmetry == Permutations(Writers) \cup Permutations(Types)
=============================================================================
