------------------------------- MODULE Notifier -------------------------------
(***************************************************************************)
(* The notification service (internal/notify): Send reads the settings     *)
(* once, asks the limiter for a slot of the event's type, and tries the    *)
(* provider a few times under the caller's timeout.  The watcher, the      *)
(* safety controller, the smart drain and test requests call it            *)
(* concurrently.                                                           *)
(*                                                                         *)
(* A message is the type of its event; the provider is whatever answers,   *)
(* fails to answer, or is not reached.  Instants are kept as ages, up to   *)
(* the largest one that is ever compared.  The network is external.        *)
(***************************************************************************)
EXTENDS Integers

CONSTANTS
  Senders,     (* calls of Send that may be in progress together            *)
  Kinds,       (* types of events                                           *)
  Exempt,      (* those the limiter does not see: EventTest, EventAutoDrain *)
  Configs,     (* notification settings the operator may save               *)
  NoConfig,    (* the settings of a sender that has read none               *)
  MaxAttempts, (* Service.maxAttempts                                       *)
  Cooldown,    (* Limiter.cooldown                                          *)
  CallTimeout  (* the timeout of the caller's context                       *)

ConfigType == [ enabled : BOOLEAN, configured : BOOLEAN, dryRun : BOOLEAN ]

(* 12 s against 5 min. *)
ASSUME ConstantsAssumption ==
  /\ Exempt \subseteq Kinds
  /\ "none" \notin Kinds
  /\ Configs \subseteq ConfigType
  /\ NoConfig \notin Configs
  /\ MaxAttempts \in Nat \ {0}
  /\ Cooldown \in Nat
  /\ CallTimeout \in Nat
  /\ CallTimeout < Cooldown

(* The age of an event that never happened. *)
NoAge == -1

Ages(bound) == 0 .. bound \cup {NoAge}

VARIABLES
  cfg,        (* Server.cfg.Notifications                                   *)
  allowedFor, (* age of Limiter.last                                        *)
  pc,         (* where each sender is                                       *)
  kindOf,     (* the event each sender sends                                *)
  cfgOf,      (* the settings each sender has read                          *)
  attempts,   (* attempts each sender has begun                             *)
  callFor,    (* age of each sender's context                               *)
  result,     (* what the last Send of each sender returned, if none is open *)
  copies,     (* history: copies of the message the provider has got        *)
  reachedFor, (* history: age of the last copy of each limited kind it got   *)
  offFor      (* history: age of the settings, while they allow no message  *)

callVars == <<pc, kindOf, cfgOf, attempts, callFor, result>>
historyVars == <<copies, reachedFor>>
vars == <<cfg, allowedFor, callVars, historyVars, offFor>>

Results == {"none", "disabled", "not configured", "rate limited", "dry run", "ok", "failed"}

-----------------------------------------------------------------------------
Older(age, bound) == IF age = NoAge \/ age >= bound THEN age ELSE age + 1

Deliverable(c) == c.enabled /\ c.configured /\ ~c.dryRun

(* Mutant: an instant of the cooldown is forgotten for each of the call.    *)
LimitedForACall(kind) == allowedFor[kind] # NoAge /\ allowedFor[kind] < CallTimeout

(* Allow: the slot of a type is taken until the cooldown is over.           *)
Limited(kind) == allowedFor[kind] # NoAge /\ allowedFor[kind] < Cooldown

(* Mutant: the context of the caller is not looked at between attempts.     *)
ExpiredNever(s) == FALSE

Expired(s) == callFor[s] >= CallTimeout

(* Mutant: when the attempts are used up the error is lost. *)
LastErrorLost(s) == IF attempts[s] < MaxAttempts /\ ~Expired(s) THEN "backoff" ELSE "ok"

(* What follows an attempt that may be tried again. *)
AfterFailure(s) == IF attempts[s] < MaxAttempts THEN "backoff" ELSE "failed"

Goto(s, label) == pc' = [pc EXCEPT ![s] = label]

Return(s, answer) ==
  /\ Goto(s, "idle")
  /\ result' = [result EXCEPT ![s] = answer]
  /\ kindOf' = [kindOf EXCEPT ![s] = "none"]
  /\ cfgOf' = [cfgOf EXCEPT ![s] = NoConfig]
  /\ attempts' = [attempts EXCEPT ![s] = 0]
  /\ callFor' = [callFor EXCEPT ![s] = 0]

Continue(s, label) ==
  /\ Goto(s, label)
  /\ UNCHANGED <<kindOf, cfgOf, attempts, callFor, result>>

Receive(s) ==
  /\ copies' = [copies EXCEPT ![s] = @ + 1]
  /\ IF kindOf[s] \in Exempt THEN UNCHANGED reachedFor
     ELSE reachedFor' = [reachedFor EXCEPT ![kindOf[s]] = 0]

Init ==
  /\ cfg \in Configs
  /\ allowedFor = [k \in Kinds |-> NoAge]
  /\ pc = [s \in Senders |-> "idle"]
  /\ kindOf = [s \in Senders |-> "none"]
  /\ cfgOf = [s \in Senders |-> NoConfig]
  /\ attempts = [s \in Senders |-> 0]
  /\ callFor = [s \in Senders |-> 0]
  /\ result = [s \in Senders |-> "none"]
  /\ copies = [s \in Senders |-> 0]
  /\ reachedFor = [k \in Kinds |-> NoAge]
  /\ offFor = IF Deliverable(cfg) THEN NoAge ELSE CallTimeout

UpdateSettings ==
  /\ cfg' \in Configs \ {cfg}
  /\ offFor' = IF Deliverable(cfg') THEN NoAge ELSE IF offFor = NoAge THEN 0 ELSE offFor
  /\ UNCHANGED <<allowedFor, callVars, historyVars>>

InCall(s) == pc[s] # "idle"

(* The deadline of a context ends what a sender waits for, so no call gets  *)
(* older than its timeout.                                                  *)
TimePasses ==
  /\ \A s \in Senders : InCall(s) => ~Expired(s)
  /\ allowedFor' = [k \in Kinds |-> Older(allowedFor[k], Cooldown)]
  /\ callFor' = [s \in Senders |-> IF InCall(s) THEN callFor[s] + 1 ELSE 0]
  /\ reachedFor' = [k \in Kinds |-> Older(reachedFor[k], Cooldown + CallTimeout)]
  /\ offFor' = Older(offFor, CallTimeout + 1)
  /\ UNCHANGED <<cfg, pc, kindOf, cfgOf, attempts, result, copies>>

-----------------------------------------------------------------------------
(* Send. *)

Send(s) ==
  /\ pc[s] = "idle"
  /\ copies' = [copies EXCEPT ![s] = 0]
  /\ \/ ~cfg.enabled /\ Return(s, "disabled")
     \/ cfg.enabled /\ ~cfg.configured /\ Return(s, "not configured")
     \/ /\ cfg.enabled /\ cfg.configured
        /\ \E k \in Kinds : kindOf' = [kindOf EXCEPT ![s] = k]
        /\ cfgOf' = [cfgOf EXCEPT ![s] = cfg]
        /\ Goto(s, "limit")
        /\ result' = [result EXCEPT ![s] = "none"]
        /\ UNCHANGED <<attempts, callFor>>
  /\ UNCHANGED <<cfg, allowedFor, reachedFor, offFor>>

RateLimited(s) ==
  /\ pc[s] = "limit"
  /\ kindOf[s] \notin Exempt
  /\ Limited(kindOf[s])
  /\ Return(s, "rate limited")
  /\ UNCHANGED <<cfg, allowedFor, historyVars, offFor>>

(* A dry run takes the slot and delivers nothing. *)
Allow(s) ==
  /\ pc[s] = "limit"
  /\ kindOf[s] \in Exempt \/ ~Limited(kindOf[s])
  /\ IF kindOf[s] \in Exempt THEN UNCHANGED allowedFor
     ELSE allowedFor' = [allowedFor EXCEPT ![kindOf[s]] = 0]
  /\ IF cfgOf[s].dryRun THEN Return(s, "dry run") ELSE Continue(s, "ready")
  /\ UNCHANGED <<cfg, historyVars, offFor>>

(* Mutant: the attempts are not counted. *)
BeginUncounted(s) ==
  /\ pc[s] = "ready"
  /\ ~Expired(s)
  /\ Goto(s, "attempt")
  /\ UNCHANGED <<cfg, allowedFor, kindOf, cfgOf, attempts, callFor, result, historyVars, offFor>>

(* withRetry: the context is looked at before each attempt. *)
Begin(s) ==
  /\ pc[s] = "ready"
  /\ ~Expired(s)
  /\ attempts' = [attempts EXCEPT ![s] = @ + 1]
  /\ Goto(s, "attempt")
  /\ UNCHANGED <<cfg, allowedFor, kindOf, cfgOf, callFor, result, historyVars, offFor>>

(* The context ends before an attempt or in the wait between two. *)
Expire(s) ==
  /\ pc[s] \in {"ready", "backoff"}
  /\ Expired(s)
  /\ Return(s, "failed")
  /\ UNCHANGED <<cfg, allowedFor, historyVars, offFor>>

Accepted(s) ==
  /\ pc[s] = "attempt"
  /\ Receive(s)
  /\ Return(s, "ok")
  /\ UNCHANGED <<cfg, allowedFor, offFor>>

(* A status that is not tried again. *)
Refused(s) ==
  /\ pc[s] = "attempt"
  /\ Return(s, "failed")
  /\ UNCHANGED <<cfg, allowedFor, historyVars, offFor>>

(* A network error, a timeout, 429 or 5xx; the provider may have got it.    *)
Unanswered(s) ==
  /\ pc[s] = "attempt"
  /\ Receive(s) \/ UNCHANGED historyVars
  /\ IF AfterFailure(s) = "backoff" THEN Continue(s, "backoff")
     ELSE Return(s, AfterFailure(s))
  /\ UNCHANGED <<cfg, allowedFor, offFor>>

TryAgain(s) ==
  /\ pc[s] = "backoff"
  /\ ~Expired(s)
  /\ Continue(s, "ready")
  /\ UNCHANGED <<cfg, allowedFor, historyVars, offFor>>

Call(s) ==
  \/ RateLimited(s)
  \/ Allow(s)
  \/ Begin(s)
  \/ Expire(s)
  \/ Accepted(s)
  \/ Refused(s)
  \/ Unanswered(s)
  \/ TryAgain(s)

Next ==
  \/ UpdateSettings
  \/ TimePasses
  \/ \E s \in Senders : Send(s) \/ Call(s)

Spec == Init /\ [][Next]_vars

(* Nothing in a call waits without a deadline. *)
Fairness == \A s \in Senders : WF_vars(Call(s))

FairSpec == Spec /\ Fairness

-----------------------------------------------------------------------------
(* Properties. *)

(* Every variable holds a value of the kind the code gives it, no more      *)
(* attempts are made than allowed, and no call outlives its context.        *)
TypeOK ==
  /\ cfg \in Configs
  /\ allowedFor \in [Kinds -> Ages(Cooldown)]
  /\ pc \in [Senders -> {"idle", "limit", "ready", "attempt", "backoff"}]
  /\ kindOf \in [Senders -> Kinds \cup {"none"}]
  /\ cfgOf \in [Senders -> Configs \cup {NoConfig}]
  /\ attempts \in [Senders -> 0 .. MaxAttempts]
  /\ callFor \in [Senders -> 0 .. CallTimeout]
  /\ result \in [Senders -> Results]
  /\ copies \in [Senders -> 0 .. MaxAttempts]
  /\ reachedFor \in [Kinds -> Ages(Cooldown + CallTimeout)]
  /\ offFor \in Ages(CallTimeout + 1)

Delivering(s) == pc[s] \in {"ready", "attempt", "backoff"}

(* The limiter and the timeouts together: two callers never deliver the     *)
(* same kind of event at once, so its messages cannot overtake each other.  *)
OneDeliveryPerKind ==
  \A s, t \in Senders :
    s # t /\ Delivering(s) /\ Delivering(t) /\ kindOf[s] = kindOf[t] => kindOf[s] \in Exempt

(* However often an event is raised, copies that are not retries of one     *)
(* message are at least a cooldown less a call apart.                       *)
NoSpam ==
  [][\A s \in Senders :
       copies[s] = 0 /\ copies'[s] = 1 /\ kindOf[s] \notin Exempt =>
         reachedFor[kindOf[s]] \notin 0 .. Cooldown - CallTimeout - 1]_vars

(* What Send returns is what happened: no error without a message sent or a *)
(* dry run, and no message under an answer that says none was tried.        *)
ResultIsHonest ==
  \A s \in Senders : ~InCall(s) =>
    /\ result[s] = "ok" => copies[s] > 0
    /\ result[s] \in {"disabled", "not configured", "rate limited", "dry run"} => copies[s] = 0

(* Settings read by calls in progress: once notifications are off, or in    *)
(* dry run, for longer than a call may last, nothing is sent.               *)
OffGoesQuiet ==
  [][\A s \in Senders : copies'[s] > copies[s] => offFor <= CallTimeout]_vars

(* Every call returns. *)
SendReturns == \A s \in Senders : InCall(s) ~> ~InCall(s)

=============================================================================
