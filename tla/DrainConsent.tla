---------------------------- MODULE DrainConsent ----------------------------
(***************************************************************************)
(* What the smart drain promises its operator, without threads, locks,     *)
(* timers or settings.  Prompts are put one at a time.  A prompt is asked, *)
(* and either never reaches the operator or becomes open; an open prompt   *)
(* is granted, declined or withdrawn, for good.  The host is drained only  *)
(* for a granted prompt, and once for each.                                *)
(*                                                                         *)
(* A drain takes effect some time after its prompt was granted.  If a      *)
(* later prompt has been put by then, the drain withdraws it: this is      *)
(* weaker than an operator would expect (a later NO does not recall an     *)
(* earlier YES) and is what the code in auto_drain.go keeps.               *)
(***************************************************************************)
EXTENDS Naturals

CONSTANT MaxPrompts  (* bound: prompts in a behaviour *)

VARIABLES
  verdict,  (* what became of each prompt      *)
  drained   (* the prompts the host ran for    *)

vars == <<verdict, drained>>

Prompts == 1 .. MaxPrompts

Verdicts == {"unasked", "asking", "open", "granted", "declined", "withdrawn"}

Unsettled == {"asking", "open"}

TypeOK ==
  /\ verdict \in [Prompts -> Verdicts]
  /\ drained \subseteq Prompts

Init ==
  /\ verdict = [p \in Prompts |-> "unasked"]
  /\ drained = {}

Becomes(p, v) == verdict' = [verdict EXCEPT ![p] = v]

(* Prompts are put in order, each when the one before is settled. *)
Ask(p) ==
  /\ verdict[p] = "unasked"
  /\ \A q \in Prompts : q < p => verdict[q] \notin Unsettled \cup {"unasked"}
  /\ Becomes(p, "asking")
  /\ UNCHANGED drained

Deliver(p) ==
  /\ verdict[p] = "asking"
  /\ Becomes(p, "open")
  /\ UNCHANGED drained

Grant(p) ==
  /\ verdict[p] = "open"
  /\ Becomes(p, "granted")
  /\ UNCHANGED drained

Decline(p) ==
  /\ verdict[p] = "open"
  /\ Becomes(p, "declined")
  /\ UNCHANGED drained

Withdraw(p) ==
  /\ verdict[p] \in Unsettled
  /\ Becomes(p, "withdrawn")
  /\ UNCHANGED drained

Drain(p) ==
  /\ verdict[p] = "granted"
  /\ p \notin drained
  /\ drained' = drained \cup {p}
  /\ verdict' = [q \in Prompts |-> IF verdict[q] = "open" THEN "withdrawn" ELSE verdict[q]]

Next ==
  \E p \in Prompts :
    Ask(p) \/ Deliver(p) \/ Grant(p) \/ Decline(p) \/ Withdraw(p) \/ Drain(p)

Spec == Init /\ [][Next]_vars
=============================================================================
