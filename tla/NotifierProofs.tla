---------------------------- MODULE NotifierProofs ----------------------------
(***************************************************************************)
(* Theorems about Notifier, for any number of senders, any settings and    *)
(* any timing in which a call is shorter than the cooldown.                *)
(*                                                                         *)
(* A sender that delivers holds the slot of its kind, taken since its call *)
(* began (Slots); a call is shorter than the cooldown, so nobody else gets *)
(* it.  Hence a message that reached the provider came at most a call      *)
(* after the slot was taken, and the next one is a cooldown away (Spacing). *)
(* Settings read at the start are younger than the call (Quiet).           *)
(***************************************************************************)
EXTENDS Notifier, TLAPS

CallsTyped ==
  /\ pc \in [Senders -> {"idle", "limit", "ready", "attempt", "backoff"}]
  /\ kindOf \in [Senders -> Kinds \cup {"none"}]
  /\ cfgOf \in [Senders -> Configs \cup {NoConfig}]
  /\ attempts \in [Senders -> 0 .. MaxAttempts]
  /\ callFor \in [Senders -> 0 .. CallTimeout]
  /\ result \in [Senders -> Results]
  /\ copies \in [Senders -> 0 .. MaxAttempts]

AgesTyped ==
  /\ cfg \in Configs
  /\ allowedFor \in [Kinds -> Ages(Cooldown)]
  /\ reachedFor \in [Kinds -> Ages(Cooldown + CallTimeout)]
  /\ offFor \in Ages(CallTimeout + 1)

(* How far a call has come bounds its attempts, and those its copies. *)
Progress ==
  \A s \in Senders :
    /\ pc[s] # "idle" => kindOf[s] \in Kinds /\ cfgOf[s] \in Configs /\ copies[s] <= attempts[s]
    /\ pc[s] = "limit" => copies[s] = 0
    /\ pc[s] = "idle" => attempts[s] = 0
    /\ pc[s] \in {"limit", "ready", "backoff"} => attempts[s] < MaxAttempts
    /\ pc[s] = "attempt" => copies[s] < attempts[s]

Slots ==
  \A s \in Senders : Delivering(s) /\ kindOf[s] \notin Exempt =>
    0 <= allowedFor[kindOf[s]] /\ allowedFor[kindOf[s]] <= callFor[s]

Spacing ==
  /\ \A k \in Kinds \ Exempt : reachedFor[k] # NoAge =>
       allowedFor[k] # NoAge /\ reachedFor[k] >= allowedFor[k] - CallTimeout
  /\ \A s \in Senders : Delivering(s) /\ kindOf[s] \notin Exempt /\ copies[s] = 0 =>
       reachedFor[kindOf[s]] = NoAge \/ reachedFor[kindOf[s]] >= Cooldown - CallTimeout

Quiet ==
  /\ Deliverable(cfg) => offFor = NoAge
  /\ \A s \in Senders :
       Delivering(s) \/ (pc[s] = "limit" /\ ~cfgOf[s].dryRun) => offFor <= callFor[s]

LEMMA TypedIsTypeOK == CallsTyped /\ AgesTyped <=> TypeOK
BY DEF CallsTyped, AgesTyped, TypeOK

LEMMA OlderFacts ==
  ASSUME NEW bound \in Nat, NEW a \in Ages(bound)
  PROVE  /\ Older(a, bound) \in Ages(bound)
         /\ Older(a, bound) = NoAge <=> a = NoAge
         /\ a # NoAge => Older(a, bound) \in {a, a + 1}
         /\ a # NoAge /\ a < bound => Older(a, bound) = a + 1
         /\ a >= bound => Older(a, bound) = a
BY DEF Older, Ages, NoAge

-----------------------------------------------------------------------------
(* Type correctness, with Progress. *)

Calls == CallsTyped /\ Progress

LEMMA CallsInit == Init => Calls
<1> SUFFICES ASSUME Init
             PROVE  Calls
  OBVIOUS
<1>1. CallsTyped
  BY ConstantsAssumption DEF Init, CallsTyped, Results
<1>2. Progress
  BY DEF Init, Progress
<1> QED
  BY <1>1, <1>2 DEF Calls

(* What a sender alone may change of the copies. *)
CopiesOf(s) ==
  /\ copies' \in [Senders -> 0 .. MaxAttempts]
  /\ \A t \in Senders \ {s} : copies'[t] = copies[t]

LEMMA Returning ==
  ASSUME Calls, NEW s \in Senders, NEW answer \in Results,
         Return(s, answer), CopiesOf(s)
  PROVE  Calls'
<1> USE ConstantsAssumption DEF Calls
<1>1. CallsTyped'
  <2>1. pc' \in [Senders -> {"idle", "limit", "ready", "attempt", "backoff"}]
    BY DEF Return, Goto, CallsTyped
  <2>2. kindOf' \in [Senders -> Kinds \cup {"none"}]
    BY DEF Return, CallsTyped
  <2>3. cfgOf' \in [Senders -> Configs \cup {NoConfig}]
    BY DEF Return, CallsTyped
  <2>4. attempts' \in [Senders -> 0 .. MaxAttempts]
    BY DEF Return, CallsTyped
  <2>5. callFor' \in [Senders -> 0 .. CallTimeout]
    BY DEF Return, CallsTyped
  <2>6. result' \in [Senders -> Results]
    BY DEF Return, CallsTyped
  <2> QED
    BY <2>1, <2>2, <2>3, <2>4, <2>5, <2>6 DEF CallsTyped, CopiesOf
<1>2. Progress'
  <2> SUFFICES ASSUME NEW t \in Senders
               PROVE  /\ pc'[t] # "idle" => kindOf'[t] \in Kinds /\ cfgOf'[t] \in Configs /\ copies'[t] <= attempts'[t]
                      /\ pc'[t] = "limit" => copies'[t] = 0
                      /\ pc'[t] = "idle" => attempts'[t] = 0
                      /\ pc'[t] \in {"limit", "ready", "backoff"} => attempts'[t] < MaxAttempts
                      /\ pc'[t] = "attempt" => copies'[t] < attempts'[t]
    BY DEF Progress
  <2>1. CASE t = s
    BY <2>1 DEF Return, Goto, CallsTyped
  <2>2. CASE t # s
    <3>1. /\ pc'[t] = pc[t] /\ kindOf'[t] = kindOf[t] /\ cfgOf'[t] = cfgOf[t]
          /\ attempts'[t] = attempts[t] /\ copies'[t] = copies[t]
      BY <2>2 DEF Return, Goto, CallsTyped, CopiesOf
    <3> QED
      BY <3>1 DEF Progress
  <2> QED
    BY <2>1, <2>2
<1> QED
  BY <1>1, <1>2

(* A call that goes on: to what, with how many attempts and copies. *)
LEMMA Continuing ==
  ASSUME Calls, NEW s \in Senders, pc[s] # "idle", CopiesOf(s),
         NEW label \in {"ready", "attempt", "backoff"}, Goto(s, label),
         kindOf' = kindOf, cfgOf' = cfgOf, callFor' = callFor, result' = result,
         attempts' \in [Senders -> 0 .. MaxAttempts],
         \A t \in Senders \ {s} : attempts'[t] = attempts[t],
         copies'[s] <= attempts'[s],
         label # "attempt" => attempts'[s] < MaxAttempts,
         label = "attempt" => copies'[s] < attempts'[s]
  PROVE  Calls'
<1> USE DEF Calls
<1>1. CallsTyped'
  BY DEF Goto, CallsTyped, CopiesOf
<1>2. ASSUME NEW t \in Senders
      PROVE  /\ pc'[t] # "idle" => kindOf'[t] \in Kinds /\ cfgOf'[t] \in Configs /\ copies'[t] <= attempts'[t]
             /\ pc'[t] = "limit" => copies'[t] = 0
             /\ pc'[t] = "idle" => attempts'[t] = 0
             /\ pc'[t] \in {"limit", "ready", "backoff"} => attempts'[t] < MaxAttempts
             /\ pc'[t] = "attempt" => copies'[t] < attempts'[t]
  <2>1. CASE t = s
    BY <2>1 DEF Goto, CallsTyped, Progress
  <2>2. CASE t # s
    BY <2>2 DEF Goto, CallsTyped, CopiesOf, Progress
  <2> QED
    BY <2>1, <2>2
<1> QED
  BY <1>1, <1>2 DEF Progress

LEMMA CallsStep == Calls /\ AgesTyped /\ [Next]_vars => Calls'
<1> SUFFICES ASSUME Calls, AgesTyped, [Next]_vars
             PROVE  Calls'
  OBVIOUS
<1> USE ConstantsAssumption
<1>0. /\ "disabled" \in Results /\ "not configured" \in Results /\ "rate limited" \in Results
      /\ "dry run" \in Results /\ "ok" \in Results /\ "failed" \in Results
      /\ "none" \in Results
  BY DEF Results
<1>1. CASE UNCHANGED vars \/ UpdateSettings
  BY <1>1 DEF vars, UpdateSettings, callVars, historyVars, Calls, CallsTyped, Progress
<1>2. CASE TimePasses
  <2>1. callFor' \in [Senders -> 0 .. CallTimeout]
    BY <1>2 DEF TimePasses, Calls, CallsTyped, Expired, InCall
  <2> QED
    BY <1>2, <2>1 DEF TimePasses, Calls, CallsTyped, Progress
<1>3. ASSUME NEW s \in Senders, Send(s)
      PROVE  Calls'
  <2>0. copies' = [copies EXCEPT ![s] = 0]
    BY <1>3 DEF Send
  <2>1. CopiesOf(s) /\ copies'[s] = 0
    BY <2>0 DEF CopiesOf, Calls, CallsTyped
  <2>4. attempts[s] = 0
    BY <1>3 DEF Send, Calls, Progress
  <2>2. CASE Return(s, "disabled") \/ Return(s, "not configured")
    BY <2>1, <2>2, <1>0, Returning
  <2>3. CASE Goto(s, "limit")
    <3>1. PICK k \in Kinds : kindOf' = [kindOf EXCEPT ![s] = k]
      BY <1>3, <2>3 DEF Send, Return, Goto, Calls, CallsTyped
    <3>2. /\ cfgOf' = [cfgOf EXCEPT ![s] = cfg] /\ UNCHANGED <<attempts, callFor>>
          /\ result' = [result EXCEPT ![s] = "none"]
      BY <1>3, <2>3 DEF Send, Return, Goto, Calls, CallsTyped
    <3>3. cfg \in Configs
      BY DEF AgesTyped
    <3>4. CallsTyped'
      BY <1>0, <2>1, <2>3, <3>1, <3>2, <3>3 DEF Goto, Calls, CallsTyped, CopiesOf
    <3>5. ASSUME NEW t \in Senders
          PROVE  /\ pc'[t] # "idle" => kindOf'[t] \in Kinds /\ cfgOf'[t] \in Configs /\ copies'[t] <= attempts'[t]
                 /\ pc'[t] = "limit" => copies'[t] = 0
                 /\ pc'[t] = "idle" => attempts'[t] = 0
                 /\ pc'[t] \in {"limit", "ready", "backoff"} => attempts'[t] < MaxAttempts
                 /\ pc'[t] = "attempt" => copies'[t] < attempts'[t]
      <4>1. CASE t = s
        BY <4>1, <2>1, <2>3, <2>4, <3>1, <3>2, <3>3 DEF Goto, Calls, CallsTyped, Progress
      <4>2. CASE t # s
        BY <4>2, <2>1, <2>3, <3>1, <3>2 DEF Goto, Calls, CallsTyped, CopiesOf, Progress
      <4> QED
        BY <4>1, <4>2
    <3> QED
      BY <3>4, <3>5 DEF Calls, Progress
  <2> QED
    BY <1>3, <2>2, <2>3 DEF Send
<1>4. ASSUME NEW s \in Senders, RateLimited(s) \/ Expire(s) \/ Refused(s)
      PROVE  Calls'
  <2>1. CopiesOf(s)
    BY <1>4 DEF RateLimited, Expire, Refused, historyVars, CopiesOf, Calls, CallsTyped
  <2> QED
    BY <1>4, <2>1, <1>0, Returning DEF RateLimited, Expire, Refused
<1>5. ASSUME NEW s \in Senders, Allow(s)
      PROVE  Calls'
  <2>1. CopiesOf(s) /\ copies'[s] = copies[s]
    BY <1>5 DEF Allow, historyVars, CopiesOf, Calls, CallsTyped
  <2>2. CASE Return(s, "dry run")
    BY <2>1, <2>2, <1>0, Returning
  <2>3. CASE Continue(s, "ready")
    <3>1. pc[s] = "limit" /\ copies[s] <= attempts[s] /\ attempts[s] < MaxAttempts
      BY <1>5 DEF Allow, Calls, Progress
    <3>2. attempts' \in [Senders -> 0 .. MaxAttempts] /\ \A t \in Senders : attempts'[t] = attempts[t]
      BY <2>3 DEF Continue, Calls, CallsTyped
    <3> QED
      BY <2>1, <2>3, <3>1, <3>2, Continuing DEF Continue
  <2> QED
    BY <1>5, <2>2, <2>3 DEF Allow
<1>6. ASSUME NEW s \in Senders, Begin(s)
      PROVE  Calls'
  <2>1. CopiesOf(s) /\ copies'[s] = copies[s]
    BY <1>6 DEF Begin, historyVars, CopiesOf, Calls, CallsTyped
  <2>2. pc[s] = "ready" /\ copies[s] <= attempts[s] /\ attempts[s] < MaxAttempts
    BY <1>6 DEF Begin, Calls, Progress
  <2>3. /\ attempts' \in [Senders -> 0 .. MaxAttempts]
        /\ \A t \in Senders \ {s} : attempts'[t] = attempts[t]
        /\ attempts'[s] = attempts[s] + 1
    BY <1>6, <2>2 DEF Begin, Calls, CallsTyped
  <2>4. copies'[s] < attempts'[s] /\ copies'[s] <= attempts'[s]
    BY <2>1, <2>2, <2>3 DEF Calls, CallsTyped
  <2> QED
    BY <1>6, <2>1, <2>2, <2>3, <2>4, Continuing DEF Begin
<1>7. ASSUME NEW s \in Senders, Accepted(s) \/ Unanswered(s)
      PROVE  Calls'
  <2>1. pc[s] = "attempt" /\ copies[s] < attempts[s]
    BY <1>7 DEF Accepted, Unanswered, Calls, Progress
  <2>2. copies' = copies \/ copies' = [copies EXCEPT ![s] = @ + 1]
    BY <1>7 DEF Accepted, Unanswered, Receive, historyVars
  <2>3. CopiesOf(s) /\ copies'[s] <= attempts[s]
    BY <2>1, <2>2 DEF CopiesOf, Calls, CallsTyped
  <2>4. \/ Continue(s, "backoff") /\ attempts[s] < MaxAttempts
        \/ Return(s, "failed")
        \/ Return(s, "ok")
    BY <1>7 DEF Accepted, Unanswered, AfterFailure
  <2>5. CASE Continue(s, "backoff") /\ attempts[s] < MaxAttempts
    <3>1. attempts' \in [Senders -> 0 .. MaxAttempts] /\ \A t \in Senders : attempts'[t] = attempts[t]
      BY <2>5 DEF Continue, Calls, CallsTyped
    <3> QED
      BY <2>1, <2>3, <2>5, <3>1, Continuing DEF Continue
  <2> QED
    BY <2>3, <2>4, <2>5, <1>0, Returning
<1>8. ASSUME NEW s \in Senders, TryAgain(s)
      PROVE  Calls'
  <2>1. CopiesOf(s) /\ copies'[s] = copies[s]
    BY <1>8 DEF TryAgain, historyVars, CopiesOf, Calls, CallsTyped
  <2>2. pc[s] = "backoff" /\ copies[s] <= attempts[s] /\ attempts[s] < MaxAttempts
    BY <1>8 DEF TryAgain, Calls, Progress
  <2>3. attempts' \in [Senders -> 0 .. MaxAttempts] /\ \A t \in Senders : attempts'[t] = attempts[t]
    BY <1>8 DEF TryAgain, Continue, Calls, CallsTyped
  <2> QED
    BY <1>8, <2>1, <2>2, <2>3, Continuing DEF TryAgain, Continue
<1> QED
  BY <1>1, <1>2, <1>3, <1>4, <1>5, <1>6, <1>7, <1>8 DEF Next, Call

LEMMA AgesInit == Init => AgesTyped
BY ConstantsAssumption DEF Init, AgesTyped, Ages, NoAge

LEMMA AgesStep == Calls /\ AgesTyped /\ [Next]_vars => AgesTyped'
<1> SUFFICES ASSUME Calls, AgesTyped, [Next]_vars
             PROVE  AgesTyped'
  OBVIOUS
<1> USE ConstantsAssumption DEF AgesTyped
<1>1. CASE UNCHANGED vars
  BY <1>1 DEF vars, historyVars
<1>2. CASE UpdateSettings
  BY <1>2 DEF UpdateSettings, historyVars, Ages, NoAge
<1>3. CASE TimePasses
  <2>1. allowedFor' \in [Kinds -> Ages(Cooldown)]
    BY <1>3, OlderFacts DEF TimePasses
  <2>2. reachedFor' \in [Kinds -> Ages(Cooldown + CallTimeout)]
    BY <1>3, OlderFacts DEF TimePasses
  <2>3. offFor' \in Ages(CallTimeout + 1)
    BY <1>3, OlderFacts DEF TimePasses
  <2> QED
    BY <1>3, <2>1, <2>2, <2>3 DEF TimePasses
<1>4. ASSUME NEW s \in Senders, Send(s)
      PROVE  AgesTyped'
  BY <1>4 DEF Send
<1>5. ASSUME NEW s \in Senders, RateLimited(s) \/ Begin(s) \/ Expire(s) \/ Refused(s) \/ TryAgain(s)
      PROVE  AgesTyped'
  BY <1>5 DEF RateLimited, Begin, Expire, Refused, TryAgain, historyVars
<1>6. ASSUME NEW s \in Senders, Allow(s)
      PROVE  AgesTyped'
  <2>1. kindOf[s] \in Kinds
    BY <1>6 DEF Allow, Calls, Progress
  <2>2. 0 \in Ages(Cooldown)
    BY DEF Ages
  <2>3. UNCHANGED <<cfg, reachedFor, offFor>>
    BY <1>6 DEF Allow, historyVars
  <2>4. allowedFor' = allowedFor \/ allowedFor' = [allowedFor EXCEPT ![kindOf[s]] = 0]
    BY <1>6 DEF Allow
  <2>5. allowedFor' \in [Kinds -> Ages(Cooldown)]
    BY <2>1, <2>2, <2>4
  <2> QED
    BY <2>3, <2>5
<1>7. ASSUME NEW s \in Senders, Accepted(s) \/ Unanswered(s)
      PROVE  AgesTyped'
  BY <1>7 DEF Accepted, Unanswered, Receive, historyVars, Ages
<1> QED
  BY <1>1, <1>2, <1>3, <1>4, <1>5, <1>6, <1>7 DEF Next, Call

Typed == Calls /\ AgesTyped

LEMMA TypedHolds == Spec => []Typed
<1>1. Init => Typed
  BY CallsInit, AgesInit DEF Typed
<1>2. Typed /\ [Next]_vars => Typed'
  BY CallsStep, AgesStep DEF Typed
<1> QED
  BY <1>1, <1>2, PTL DEF Spec

(* Every variable of the notifier keeps a value of its kind: in particular  *)
(* no event is tried more often than allowed.                               *)
THEOREM TypeCorrect == Spec => []TypeOK
<1>1. Typed => TypeOK
  BY TypedIsTypeOK DEF Typed, Calls
<1> QED
  BY TypedHolds, <1>1, PTL

(* A sender's step leaves the calls of the others alone. *)
LEMMA Apart ==
  ASSUME Calls, NEW s \in Senders, Send(s) \/ Call(s), NEW t \in Senders, t # s
  PROVE  /\ pc'[t] = pc[t] /\ kindOf'[t] = kindOf[t] /\ cfgOf'[t] = cfgOf[t]
         /\ callFor'[t] = callFor[t] /\ result'[t] = result[t] /\ copies'[t] = copies[t]
<1> USE DEF Calls, CallsTyped
<1>1. ASSUME NEW answer, Return(s, answer)
      PROVE  /\ pc'[t] = pc[t] /\ kindOf'[t] = kindOf[t] /\ cfgOf'[t] = cfgOf[t]
             /\ callFor'[t] = callFor[t] /\ result'[t] = result[t]
  BY <1>1 DEF Return, Goto
<1>2. ASSUME NEW label, Continue(s, label)
      PROVE  /\ pc'[t] = pc[t] /\ kindOf'[t] = kindOf[t] /\ cfgOf'[t] = cfgOf[t]
             /\ callFor'[t] = callFor[t] /\ result'[t] = result[t]
  BY <1>2 DEF Continue, Goto
<1>3. CASE Send(s)
  <2>1. copies'[t] = copies[t]
    BY <1>3 DEF Send
  <2>2. CASE Goto(s, "limit") /\ UNCHANGED callFor /\ result' = [result EXCEPT ![s] = "none"]
    BY <1>3, <2>1, <2>2, <1>1 DEF Send, Goto
  <2> QED
    BY <1>3, <2>1, <2>2, <1>1 DEF Send
<1>4. CASE RateLimited(s) \/ Expire(s) \/ Refused(s)
  BY <1>4, <1>1 DEF RateLimited, Expire, Refused, historyVars
<1>5. CASE Allow(s) \/ TryAgain(s)
  BY <1>5, <1>1, <1>2 DEF Allow, TryAgain, historyVars
<1>6. CASE Begin(s)
  BY <1>6 DEF Begin, Goto, historyVars
<1>7. CASE Accepted(s) \/ Unanswered(s)
  <2>1. copies'[t] = copies[t]
    BY <1>7 DEF Accepted, Unanswered, Receive, historyVars
  <2> QED
    BY <1>7, <2>1, <1>1, <1>2 DEF Accepted, Unanswered
<1> QED
  BY <1>3, <1>4, <1>5, <1>6, <1>7 DEF Call

-----------------------------------------------------------------------------
(* The slot of a kind being delivered was taken during the call. *)

LEMMA SlotsInit == Init => Slots
BY DEF Init, Slots, Delivering

LEMMA SlotsStep == Typed /\ Slots /\ [Next]_vars => Slots'
<1> SUFFICES ASSUME Typed, Slots, [Next]_vars
             PROVE  Slots'
  OBVIOUS
<1> USE ConstantsAssumption DEF Typed
<1>1. CASE UNCHANGED vars \/ UpdateSettings
  BY <1>1 DEF vars, UpdateSettings, callVars, Slots, Delivering
<1>2. CASE TimePasses
  <2> SUFFICES ASSUME NEW s \in Senders, Delivering(s), kindOf[s] \notin Exempt
               PROVE  0 <= allowedFor'[kindOf[s]] /\ allowedFor'[kindOf[s]] <= callFor'[s]
    BY <1>2 DEF TimePasses, Slots, Delivering
  <2>1. kindOf[s] \in Kinds
    BY DEF Delivering, Calls, Progress
  <2>2. 0 <= allowedFor[kindOf[s]] /\ allowedFor[kindOf[s]] <= callFor[s]
    BY DEF Slots
  <2>3. callFor'[s] = callFor[s] + 1 /\ callFor[s] \in Nat
    BY <1>2 DEF TimePasses, InCall, Delivering, Calls, CallsTyped
  <2>4. allowedFor'[kindOf[s]] = Older(allowedFor[kindOf[s]], Cooldown)
    BY <1>2, <2>1 DEF TimePasses
  <2>5. allowedFor[kindOf[s]] \in Ages(Cooldown)
    BY <2>1 DEF AgesTyped
  <2> QED
    BY <2>2, <2>3, <2>4, <2>5, OlderFacts DEF NoAge, Ages
<1>3. ASSUME NEW s \in Senders, allowedFor' = allowedFor,
             \A t \in Senders \ {s} : pc'[t] = pc[t] /\ kindOf'[t] = kindOf[t] /\ callFor'[t] = callFor[t],
             \/ ~Delivering(s)'
             \/ Delivering(s) /\ kindOf'[s] = kindOf[s] /\ callFor'[s] = callFor[s]
      PROVE  Slots'
  BY <1>3 DEF Slots, Delivering
<1>4. ASSUME NEW s \in Senders, Send(s)
      PROVE  Slots'
  <2>1. allowedFor' = allowedFor /\ ~Delivering(s)'
    BY <1>4 DEF Send, Return, Goto, Delivering, Calls, CallsTyped
  <2>2. ASSUME NEW t \in Senders \ {s}
        PROVE  pc'[t] = pc[t] /\ kindOf'[t] = kindOf[t] /\ callFor'[t] = callFor[t]
    BY <1>4, <2>2, Apart
  <2> QED
    BY <1>3, <2>1, <2>2
<1>5. ASSUME NEW s \in Senders, Call(s), ~Allow(s)
      PROVE  Slots'
  <2>1. allowedFor' = allowedFor
    BY <1>5 DEF Call, RateLimited, Begin, Expire, Accepted, Refused, Unanswered, TryAgain
  <2>2. \/ ~Delivering(s)'
        \/ Delivering(s) /\ kindOf'[s] = kindOf[s] /\ callFor'[s] = callFor[s]
    BY <1>5 DEF Call, RateLimited, Begin, Expire, Accepted, Refused, Unanswered, TryAgain,
         Return, Continue, Goto, Delivering, Calls, CallsTyped
  <2>3. ASSUME NEW t \in Senders \ {s}
        PROVE  pc'[t] = pc[t] /\ kindOf'[t] = kindOf[t] /\ callFor'[t] = callFor[t]
    BY <1>5, <2>3, Apart
  <2> QED
    BY <1>3, <2>1, <2>2, <2>3
<1>6. ASSUME NEW s \in Senders, Allow(s)
      PROVE  Slots'
  <2>1. kindOf[s] \in Kinds
    BY <1>6 DEF Allow, Calls, Progress
  <2> SUFFICES ASSUME NEW t \in Senders, Delivering(t)', kindOf'[t] \notin Exempt
               PROVE  0 <= allowedFor'[kindOf'[t]] /\ allowedFor'[kindOf'[t]] <= callFor'[t]
    BY DEF Slots
  <2>2. CASE t = s
    <3>1. kindOf'[s] = kindOf[s] /\ callFor'[s] = callFor[s]
      BY <1>6, <2>2 DEF Allow, Return, Continue, Goto, Delivering, Calls, CallsTyped
    <3>2. allowedFor' = [allowedFor EXCEPT ![kindOf[s]] = 0]
      BY <1>6, <2>2, <3>1 DEF Allow
    <3>3. allowedFor'[kindOf[s]] = 0
      BY <2>1, <3>2 DEF AgesTyped
    <3>4. 0 <= callFor[s]
      BY DEF Calls, CallsTyped
    <3> QED
      BY <2>2, <3>1, <3>3, <3>4
  <2>3. CASE t # s
    <3>1. Delivering(t) /\ kindOf'[t] = kindOf[t] /\ callFor'[t] = callFor[t]
      BY <1>6, <2>3, Apart DEF Call, Delivering
    <3>2. 0 <= allowedFor[kindOf[t]] /\ allowedFor[kindOf[t]] <= callFor[t]
      BY <3>1 DEF Slots
    <3>3. allowedFor'[kindOf[t]] \in {allowedFor[kindOf[t]], 0}
      BY <1>6, <2>1, <3>1 DEF Allow, AgesTyped, Delivering, Calls, Progress
    <3>4. callFor[t] \in Nat
      BY DEF Calls, CallsTyped
    <3> QED
      BY <3>1, <3>2, <3>3, <3>4
  <2> QED
    BY <2>2, <2>3
<1> QED
  BY <1>1, <1>2, <1>4, <1>5, <1>6 DEF Next

(* Who gets a slot finds nobody delivering its kind. *)
LEMMA SlotIsFree ==
  ASSUME Typed, Slots, NEW s \in Senders, Allow(s), kindOf[s] \notin Exempt
  PROVE  \A t \in Senders : Delivering(t) => kindOf[t] # kindOf[s]
<1> SUFFICES ASSUME NEW t \in Senders, Delivering(t), kindOf[t] = kindOf[s]
             PROVE  FALSE
  OBVIOUS
<1>1. 0 <= allowedFor[kindOf[t]] /\ allowedFor[kindOf[t]] <= callFor[t]
  BY DEF Slots
<1>2. callFor[t] \in 0 .. CallTimeout /\ allowedFor[kindOf[t]] \in Ages(Cooldown)
  BY DEF Typed, Calls, CallsTyped, Progress, AgesTyped, Delivering
<1>3. Limited(kindOf[s])
  BY <1>1, <1>2, ConstantsAssumption DEF Limited, Ages, NoAge
<1> QED
  BY <1>3 DEF Allow

LEMMA OneDeliveryInit == Init => OneDeliveryPerKind
BY DEF Init, OneDeliveryPerKind, Delivering

LEMMA OneDeliveryStep == Typed /\ Slots /\ OneDeliveryPerKind /\ [Next]_vars => OneDeliveryPerKind'
<1> SUFFICES ASSUME Typed, Slots, OneDeliveryPerKind, [Next]_vars
             PROVE  OneDeliveryPerKind'
  OBVIOUS
<1>1. CASE UNCHANGED vars \/ UpdateSettings \/ TimePasses
  BY <1>1 DEF vars, UpdateSettings, TimePasses, callVars, OneDeliveryPerKind, Delivering
<1>2. ASSUME NEW s \in Senders, Send(s) \/ Call(s)
      PROVE  OneDeliveryPerKind'
  <2>1. ASSUME NEW t \in Senders, t # s
        PROVE  /\ Delivering(t)' <=> Delivering(t)
               /\ kindOf'[t] = kindOf[t]
    BY <1>2, <2>1, Apart DEF Typed, Delivering
  <2>2. CASE Allow(s)
    <3>1. ASSUME NEW t \in Senders, t # s, Delivering(t), Delivering(s)', kindOf[t] = kindOf'[s]
          PROVE  kindOf[t] \in Exempt
      <4>1. kindOf'[s] = kindOf[s]
        BY <2>2, <3>1 DEF Allow, Return, Continue, Goto, Delivering, Typed, Calls, CallsTyped
      <4> QED
        BY <2>2, <3>1, <4>1, SlotIsFree
    <3> QED
      BY <2>1, <3>1 DEF OneDeliveryPerKind
  <2>3. CASE ~Allow(s)
    <3>1. Delivering(s)' => Delivering(s) /\ kindOf'[s] = kindOf[s]
      BY <1>2, <2>3 DEF Send, Call, RateLimited, Begin, Expire, Accepted, Refused, Unanswered, TryAgain,
           Return, Continue, Goto, Delivering, Typed, Calls, CallsTyped
    <3> QED
      BY <2>1, <3>1 DEF OneDeliveryPerKind
  <2> QED
    BY <2>2, <2>3
<1> QED
  BY <1>1, <1>2 DEF Next

-----------------------------------------------------------------------------
(* What the slots say of the last message. *)

LEMMA SpacingInit == Init => Spacing
BY DEF Init, Spacing, Delivering

LEMMA SpacingStep ==
  Typed /\ Slots /\ OneDeliveryPerKind /\ Spacing /\ [Next]_vars => Spacing'
<1> SUFFICES ASSUME Typed, Slots, OneDeliveryPerKind, Spacing, [Next]_vars
             PROVE  Spacing'
  OBVIOUS
<1> USE ConstantsAssumption
<1>0. /\ allowedFor \in [Kinds -> Ages(Cooldown)]
      /\ reachedFor \in [Kinds -> Ages(Cooldown + CallTimeout)]
      /\ \A s \in Senders : Delivering(s) => kindOf[s] \in Kinds
      /\ \A s \in Senders : callFor[s] \in 0 .. CallTimeout
  BY DEF Typed, AgesTyped, Calls, CallsTyped, Progress, Delivering
<1>1. CASE UNCHANGED vars \/ UpdateSettings
  BY <1>1 DEF vars, UpdateSettings, callVars, historyVars, Spacing, Delivering
<1>2. CASE TimePasses
  <2>1. ASSUME NEW k \in Kinds
        PROVE  /\ allowedFor'[k] = Older(allowedFor[k], Cooldown)
               /\ reachedFor'[k] = Older(reachedFor[k], Cooldown + CallTimeout)
    BY <1>2 DEF TimePasses
  <2>2. ASSUME NEW k \in Kinds \ Exempt, reachedFor'[k] # NoAge
        PROVE  allowedFor'[k] # NoAge /\ reachedFor'[k] >= allowedFor'[k] - CallTimeout
    <3>1. reachedFor[k] \in Ages(Cooldown + CallTimeout) /\ allowedFor[k] \in Ages(Cooldown)
      BY <1>0
    <3>2. reachedFor[k] # NoAge
      BY <2>1, <2>2, <3>1 DEF Older
    <3>3. allowedFor[k] # NoAge /\ reachedFor[k] >= allowedFor[k] - CallTimeout
      BY <3>2 DEF Spacing
    <3>4. allowedFor'[k] # NoAge /\ allowedFor'[k] <= Cooldown /\ allowedFor'[k] <= allowedFor[k] + 1
      BY <2>1, <3>1, <3>3 DEF Older, Ages, NoAge
    <3>5. reachedFor'[k] = reachedFor[k] + 1 \/ reachedFor'[k] >= Cooldown
      BY <2>1, <3>1, <3>2 DEF Older, Ages, NoAge
    <3>6. allowedFor'[k] \in Int /\ reachedFor'[k] \in Int
      BY <2>1, <3>1 DEF Older, Ages, NoAge
    <3> QED
      BY <3>1, <3>3, <3>4, <3>5, <3>6 DEF Ages, NoAge
  <2>3. ASSUME NEW s \in Senders, Delivering(s)', kindOf'[s] \notin Exempt, copies'[s] = 0
        PROVE  reachedFor'[kindOf'[s]] = NoAge \/ reachedFor'[kindOf'[s]] >= Cooldown - CallTimeout
    <3>1. Delivering(s) /\ kindOf'[s] = kindOf[s] /\ copies[s] = 0
      BY <1>2, <2>3 DEF TimePasses, Delivering
    <3>2. reachedFor[kindOf[s]] = NoAge \/ reachedFor[kindOf[s]] >= Cooldown - CallTimeout
      BY <2>3, <3>1 DEF Spacing
    <3> QED
      <4>1. kindOf[s] \in Kinds
        BY <1>0, <3>1
      <4>2. reachedFor[kindOf[s]] \in Ages(Cooldown + CallTimeout)
        BY <1>0, <4>1
      <4>3. reachedFor'[kindOf'[s]] = Older(reachedFor[kindOf[s]], Cooldown + CallTimeout)
        BY <2>1, <3>1, <4>1
      <4> QED
        BY <3>2, <4>2, <4>3 DEF Older, Ages, NoAge
  <2> QED
    BY <2>2, <2>3 DEF Spacing
<1>3. ASSUME NEW s \in Senders, Allow(s)
      PROVE  Spacing'
  <2>1. reachedFor' = reachedFor /\ copies' = copies
    BY <1>3 DEF Allow, historyVars
  <2>2. kindOf[s] \in Kinds
    BY <1>3 DEF Allow, Typed, Calls, Progress
  <2>3. ASSUME NEW k \in Kinds
        PROVE  allowedFor'[k] \in {0, allowedFor[k]}
    BY <1>0, <1>3, <2>2, <2>3 DEF Allow
  <2>4. ASSUME NEW t \in Senders, Delivering(t)', kindOf'[t] \notin Exempt, copies'[t] = 0
        PROVE  reachedFor'[kindOf'[t]] = NoAge \/ reachedFor'[kindOf'[t]] >= Cooldown - CallTimeout
    <3>1. CASE t # s
      BY <1>3, <2>1, <2>4, <3>1, Apart DEF Call, Typed, Delivering, Spacing
    <3>2. CASE t = s
      <4>1. kindOf'[s] = kindOf[s]
        BY <1>3, <2>4, <3>2 DEF Allow, Return, Continue, Goto, Delivering, Typed, Calls, CallsTyped
      <4>2. allowedFor[kindOf[s]] = NoAge \/ allowedFor[kindOf[s]] >= Cooldown
        <5>1. ~Limited(kindOf[s])
          BY <1>3, <2>4, <3>2, <4>1 DEF Allow
        <5>2. allowedFor[kindOf[s]] \in Ages(Cooldown)
          BY <1>0, <2>2
        <5> QED
          BY <5>1, <5>2 DEF Limited, Ages, NoAge
      <4>3. kindOf[s] \in Kinds \ Exempt
        BY <2>2, <2>4, <3>2, <4>1
      <4> QED
        BY <1>0, <2>1, <3>2, <4>1, <4>2, <4>3 DEF Spacing, Ages, NoAge
    <3> QED
      BY <3>1, <3>2
  <2> QED
    BY <1>0, <2>1, <2>3, <2>4 DEF Spacing, Ages, NoAge
<1>4. ASSUME NEW s \in Senders, Send(s) \/ Call(s), ~Allow(s)
      PROVE  Spacing'
  <2>1. allowedFor' = allowedFor
    BY <1>4 DEF Send, Call, RateLimited, Begin, Expire, Accepted, Refused, Unanswered, TryAgain
  <2>2. Delivering(s)' => Delivering(s) /\ kindOf'[s] = kindOf[s]
    BY <1>4 DEF Send, Call, RateLimited, Begin, Expire, Accepted, Refused, Unanswered, TryAgain,
         Return, Continue, Goto, Delivering, Typed, Calls, CallsTyped
  <2>3. CASE reachedFor' = reachedFor /\ (Delivering(s)' => copies'[s] = copies[s])
    <3>1. ASSUME NEW t \in Senders, Delivering(t)'
          PROVE  Delivering(t) /\ kindOf'[t] = kindOf[t] /\ copies'[t] = copies[t]
      BY <1>4, <2>2, <2>3, <3>1, Apart DEF Typed, Delivering
    <3> QED
      BY <2>1, <2>3, <3>1 DEF Spacing
  <2>4. CASE Receive(s) /\ Delivering(s)
    <3>1. copies'[s] # 0
      BY <2>4 DEF Receive, Typed, Calls, CallsTyped
    <3>2. ASSUME NEW t \in Senders, Delivering(t)', t # s
          PROVE  Delivering(t) /\ kindOf'[t] = kindOf[t] /\ copies'[t] = copies[t]
      BY <1>4, <3>2, Apart DEF Typed, Delivering
    <3>3. CASE kindOf[s] \in Exempt
      BY <2>1, <2>4, <3>1, <3>2, <3>3 DEF Receive, Spacing
    <3>4. CASE kindOf[s] \notin Exempt
      <4>1. reachedFor' = [reachedFor EXCEPT ![kindOf[s]] = 0]
        BY <2>4, <3>4 DEF Receive
      <4>2. 0 <= allowedFor[kindOf[s]] /\ allowedFor[kindOf[s]] <= CallTimeout
        BY <1>0, <2>4, <3>4 DEF Slots, Ages, NoAge
      <4>3. ASSUME NEW k \in Kinds \ Exempt, reachedFor'[k] # NoAge
            PROVE  allowedFor'[k] # NoAge /\ reachedFor'[k] >= allowedFor'[k] - CallTimeout
        BY <1>0, <2>1, <2>4, <4>1, <4>2, <4>3 DEF Spacing, Ages, NoAge
      <4>4. ASSUME NEW t \in Senders, Delivering(t)', kindOf'[t] \notin Exempt, copies'[t] = 0
            PROVE  reachedFor'[kindOf'[t]] = NoAge \/ reachedFor'[kindOf'[t]] >= Cooldown - CallTimeout
        <5>1. t # s /\ Delivering(t) /\ kindOf'[t] = kindOf[t] /\ copies[t] = 0
          BY <3>1, <3>2, <4>4
        <5>2. kindOf[t] # kindOf[s]
          BY <2>4, <3>4, <5>1 DEF OneDeliveryPerKind
        <5>3. reachedFor'[kindOf[t]] = reachedFor[kindOf[t]]
          BY <1>0, <4>1, <5>1, <5>2
        <5> QED
          BY <4>4, <5>1, <5>3 DEF Spacing
      <4> QED
        BY <4>3, <4>4 DEF Spacing
    <3> QED
      BY <3>3, <3>4
  <2>5. \/ reachedFor' = reachedFor /\ (Delivering(s)' => copies'[s] = copies[s])
        \/ Receive(s) /\ Delivering(s)
    <3>1. CASE Send(s)
      BY <3>1 DEF Send, Return, Goto, Delivering, Typed, Calls, CallsTyped
    <3>2. CASE Call(s)
      BY <1>4, <3>2 DEF Call, RateLimited, Begin, Expire, Accepted, Refused, Unanswered, TryAgain,
           historyVars, Delivering
    <3> QED
      BY <1>4, <3>1, <3>2
  <2> QED
    BY <2>3, <2>4, <2>5
<1> QED
  BY <1>1, <1>2, <1>3, <1>4 DEF Next, Call

-----------------------------------------------------------------------------
(* What a sender knows of the settings is not older than its call. *)

LEMMA QuietInit == Init => Quiet
BY DEF Init, Quiet, Delivering

LEMMA QuietStep == Typed /\ Quiet /\ [Next]_vars => Quiet'
<1> SUFFICES ASSUME Typed, Quiet, [Next]_vars
             PROVE  Quiet'
  OBVIOUS
<1> USE ConstantsAssumption
<1>0. /\ offFor \in Ages(CallTimeout + 1)
      /\ \A s \in Senders : callFor[s] \in 0 .. CallTimeout
  BY DEF Typed, AgesTyped, Calls, CallsTyped
<1>1. CASE UNCHANGED vars
  BY <1>1 DEF vars, callVars, Quiet, Delivering, Deliverable
<1>2. CASE UpdateSettings
  <2>1. offFor' <= 0 \/ offFor' = offFor
    BY <1>2 DEF UpdateSettings, NoAge
  <2>2. UNCHANGED callVars /\ (Deliverable(cfg') => offFor' = NoAge)
    BY <1>2 DEF UpdateSettings
  <2>3. offFor' \in Int
    BY <1>0, <1>2 DEF UpdateSettings, Ages, NoAge
  <2> QED
    BY <1>0, <2>1, <2>2, <2>3 DEF callVars, Quiet, Delivering, Deliverable
<1>3. CASE TimePasses
  <2>1. offFor' = Older(offFor, CallTimeout + 1) /\ cfg' = cfg /\ pc' = pc /\ cfgOf' = cfgOf
    BY <1>3 DEF TimePasses
  <2>2. offFor = NoAge => offFor' = NoAge
    BY <2>1 DEF Older
  <2>3. offFor' <= offFor + 1 /\ offFor' \in Int
    BY <1>0, <2>1 DEF Older, Ages, NoAge
  <2>4. \A s \in Senders : InCall(s) => callFor'[s] = callFor[s] + 1
    BY <1>3 DEF TimePasses
  <2>5. ASSUME NEW s \in Senders, (Delivering(s) \/ (pc[s] = "limit" /\ ~cfgOf[s].dryRun))
        PROVE  offFor' <= callFor'[s]
    <3>1. InCall(s)
      BY <2>5 DEF Delivering, InCall
    <3> QED
      BY <1>0, <2>3, <2>4, <2>5, <3>1 DEF Quiet, Ages, NoAge
  <2> QED
    BY <2>1, <2>2, <2>5 DEF Quiet, Delivering, Deliverable
<1>4. ASSUME NEW s \in Senders, Send(s) \/ Call(s)
      PROVE  Quiet'
  <2>1. cfg' = cfg /\ offFor' = offFor
    BY <1>4 DEF Send, Call, RateLimited, Allow, Begin, Expire, Accepted, Refused, Unanswered, TryAgain
  <2>2. ASSUME NEW t \in Senders, t # s, Delivering(t)' \/ (pc'[t] = "limit" /\ ~cfgOf'[t].dryRun)
        PROVE  offFor' <= callFor'[t]
    BY <1>4, <2>1, <2>2, Apart DEF Typed, Delivering, Quiet
  <2>3. ASSUME Delivering(s)' \/ (pc'[s] = "limit" /\ ~cfgOf'[s].dryRun)
        PROVE  offFor' <= callFor'[s]
    <3>1. CASE Send(s)
      <4>1. cfgOf'[s] = cfg /\ cfg.enabled /\ cfg.configured /\ pc'[s] = "limit" /\ callFor' = callFor
        BY <2>3, <3>1 DEF Send, Return, Goto, Delivering, Typed, Calls, CallsTyped
      <4>2. Deliverable(cfg)
        BY <2>3, <4>1 DEF Deliverable, Delivering
      <4> QED
        BY <1>0, <2>1, <4>1, <4>2 DEF Quiet, NoAge
    <3>2. CASE Allow(s)
      <4>1. pc[s] = "limit" /\ ~cfgOf[s].dryRun /\ callFor' = callFor
        BY <2>3, <3>2 DEF Allow, Return, Continue, Goto, Delivering, Typed, Calls, CallsTyped
      <4> QED
        BY <2>1, <4>1 DEF Quiet
    <3>3. CASE Call(s) /\ ~Allow(s)
      <4>1. Delivering(s) /\ callFor' = callFor
        BY <2>3, <3>3 DEF Call, RateLimited, Begin, Expire, Accepted, Refused, Unanswered, TryAgain,
             Return, Continue, Goto, Delivering, Typed, Calls, CallsTyped
      <4> QED
        BY <2>1, <4>1 DEF Quiet
    <3> QED
      BY <1>4, <3>1, <3>2, <3>3
  <2>4. Deliverable(cfg') => offFor' = NoAge
    BY <2>1 DEF Quiet
  <2> QED
    BY <2>2, <2>3, <2>4 DEF Quiet, Delivering, Deliverable
<1> QED
  BY <1>1, <1>2, <1>3, <1>4 DEF Next

-----------------------------------------------------------------------------
(* The answer of a call tells what it did. *)

(* A call that returns, seen from where it was. *)
LEMMA Answering ==
  ASSUME Calls, NEW s \in Senders, Send(s) \/ Call(s), ~InCall(s)'
  PROVE  \/ result'[s] \in {"disabled", "not configured", "rate limited", "dry run"} /\ copies'[s] = 0
         \/ result'[s] = "ok" /\ copies'[s] > 0
         \/ result'[s] = "failed"
<1> USE DEF Calls, CallsTyped, InCall
<1>1. \A answer : Return(s, answer) => result'[s] = answer
  BY DEF Return
<1>2. \A label : label # "idle" /\ Goto(s, label) => pc'[s] = label
  BY DEF Goto
<1>3. CASE Send(s)
  <2>1. copies'[s] = 0
    <3>1. copies' = [copies EXCEPT ![s] = 0]
      BY <1>3 DEF Send
    <3> QED
      BY <3>1
  <2> QED
    BY <1>1, <1>2, <1>3, <2>1 DEF Send
<1>4. CASE RateLimited(s) \/ Allow(s)
  <2>1. copies[s] = 0 /\ copies' = copies
    BY <1>4 DEF RateLimited, Allow, Progress, historyVars
  <2> QED
    BY <1>1, <1>2, <1>4, <2>1 DEF RateLimited, Allow, Continue
<1>5. CASE Expire(s) \/ Refused(s)
  BY <1>1, <1>5 DEF Expire, Refused
<1>6. CASE Accepted(s)
  <2>1. copies' = [copies EXCEPT ![s] = @ + 1] /\ copies[s] \in Nat
    BY <1>6 DEF Accepted, Receive
  <2>2. copies'[s] > 0
    BY <2>1
  <2> QED
    BY <1>1, <1>6, <2>2 DEF Accepted
<1>7. CASE Unanswered(s)
  BY <1>1, <1>2, <1>7 DEF Unanswered, AfterFailure, Continue
<1>8. CASE Begin(s) \/ TryAgain(s)
  BY <1>2, <1>8 DEF Begin, TryAgain, Continue
<1> QED
  BY <1>3, <1>4, <1>5, <1>6, <1>7, <1>8 DEF Call

LEMMA HonestInit == Init => ResultIsHonest
BY DEF Init, ResultIsHonest

LEMMA HonestStep == Typed /\ ResultIsHonest /\ [Next]_vars => ResultIsHonest'
<1> SUFFICES ASSUME Typed, ResultIsHonest, [Next]_vars
             PROVE  ResultIsHonest'
  OBVIOUS
<1>1. CASE UNCHANGED vars \/ UpdateSettings \/ TimePasses
  BY <1>1 DEF vars, UpdateSettings, TimePasses, callVars, historyVars, ResultIsHonest, InCall
<1>2. ASSUME NEW s \in Senders, Send(s) \/ Call(s)
      PROVE  ResultIsHonest'
  <2>1. ASSUME NEW t \in Senders, t # s, ~InCall(t)'
        PROVE  /\ result'[t] = "ok" => copies'[t] > 0
               /\ result'[t] \in {"disabled", "not configured", "rate limited", "dry run"} => copies'[t] = 0
    BY <1>2, <2>1, Apart DEF Typed, InCall, ResultIsHonest
  <2>2. ~InCall(s)' => /\ result'[s] = "ok" => copies'[s] > 0
                       /\ result'[s] \in {"disabled", "not configured", "rate limited", "dry run"} => copies'[s] = 0
    BY <1>2, Answering DEF Typed
  <2> QED
    BY <2>1, <2>2 DEF ResultIsHonest
<1> QED
  BY <1>1, <1>2 DEF Next

-----------------------------------------------------------------------------
(* The theorems. *)

IInv == Typed /\ Slots /\ OneDeliveryPerKind /\ Spacing /\ Quiet /\ ResultIsHonest

LEMMA IInvHolds == Spec => []IInv
<1>1. Init => IInv
  BY CallsInit, AgesInit, SlotsInit, OneDeliveryInit, SpacingInit, QuietInit, HonestInit DEF Typed, IInv
<1>2. IInv /\ [Next]_vars => IInv'
  BY CallsStep, AgesStep, SlotsStep, OneDeliveryStep, SpacingStep, QuietStep, HonestStep DEF Typed, IInv
<1> QED
  BY <1>1, <1>2, PTL DEF Spec

(* Two callers never deliver the same limited kind of event together.       *)
THEOREM DeliveriesApart == Spec => []OneDeliveryPerKind
<1>1. IInv => OneDeliveryPerKind
  BY DEF IInv
<1> QED
  BY IInvHolds, <1>1, PTL

(* What Send returns is what happened: "ok" only after the provider got the *)
(* message, and none of the answers that say nothing was tried after it did.*)
THEOREM AnswersAreHonest == Spec => []ResultIsHonest
<1>1. IInv => ResultIsHonest
  BY DEF IInv
<1> QED
  BY IInvHolds, <1>1, PTL

NoSpamStep ==
  \A s \in Senders :
    copies[s] = 0 /\ copies'[s] = 1 /\ kindOf[s] \notin Exempt =>
      reachedFor[kindOf[s]] \notin 0 .. Cooldown - CallTimeout - 1

OffGoesQuietStep ==
  \A s \in Senders : copies'[s] > copies[s] => offFor <= CallTimeout

(* Copies only grow at the provider, of a message being delivered. *)
LEMMA CopiesGrow ==
  ASSUME Typed, [Next]_vars, NEW s \in Senders, copies'[s] > copies[s]
  PROVE  Delivering(s)
<1>1. copies[s] \in Nat /\ copies \in [Senders -> 0 .. MaxAttempts]
  BY DEF Typed, Calls, CallsTyped
<1>2. PICK t \in Senders : Send(t) \/ Call(t)
  BY <1>1 DEF Next, UpdateSettings, TimePasses, vars, historyVars
<1>3. t = s
  BY <1>1, <1>2, Apart DEF Typed
<1>4. ~Send(s)
  <2> SUFFICES ASSUME copies' = [copies EXCEPT ![s] = 0]
               PROVE  FALSE
    BY DEF Send
  <2> QED
    BY <1>1
<1>5. Call(s) /\ copies' # copies
  BY <1>1, <1>2, <1>3, <1>4
<1> QED
  BY <1>5 DEF Call, RateLimited, Allow, Begin, Expire, Accepted, Refused, Unanswered, TryAgain,
       historyVars, Delivering

(* However many callers raise a kind of event, a message of it that is not  *)
(* a retry comes at least a cooldown less a call after the last one.        *)
THEOREM MessagesApart == Spec => NoSpam
<1>1. IInv /\ [Next]_vars => NoSpamStep
  <2> SUFFICES ASSUME IInv, [Next]_vars, NEW s \in Senders,
                      copies[s] = 0, copies'[s] = 1, kindOf[s] \notin Exempt
               PROVE  reachedFor[kindOf[s]] \notin 0 .. Cooldown - CallTimeout - 1
    BY DEF NoSpamStep
  <2>1. Delivering(s)
    BY CopiesGrow DEF IInv
  <2>2. reachedFor[kindOf[s]] = NoAge \/ reachedFor[kindOf[s]] >= Cooldown - CallTimeout
    BY <2>1 DEF IInv, Spacing
  <2> QED
    BY <2>2, ConstantsAssumption DEF NoAge
<1> QED
  BY IInvHolds, <1>1, PTL DEF Spec, NoSpam, NoSpamStep

(* Once notifications have been off, or in dry run, for longer than a call  *)
(* may last, the provider gets nothing.                                     *)
THEOREM QuietWhenOff == Spec => OffGoesQuiet
<1>1. IInv /\ [Next]_vars => OffGoesQuietStep
  <2> SUFFICES ASSUME IInv, [Next]_vars, NEW s \in Senders, copies'[s] > copies[s]
               PROVE  offFor <= CallTimeout
    BY DEF OffGoesQuietStep
  <2>1. offFor <= callFor[s]
    BY CopiesGrow DEF IInv, Quiet
  <2> QED
    BY <2>1, ConstantsAssumption DEF IInv, Typed, Calls, CallsTyped, AgesTyped, Ages, NoAge
<1> QED
  BY IInvHolds, <1>1, PTL DEF Spec, OffGoesQuiet, OffGoesQuietStep
=============================================================================
