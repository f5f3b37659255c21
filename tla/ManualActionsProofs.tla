------------------------- MODULE ManualActionsProofs -------------------------
(***************************************************************************)
(* Theorems about ManualActions, for any number of requests, any keys and  *)
(* any settings.                                                           *)
(*                                                                         *)
(* The guard is taken by the one request that holds it (OneAtATime).  What *)
(* it keeps of the last success is what really happened (GuardRemembers),  *)
(* and nobody can change it while a request holds the guard, so that the   *)
(* cooldown tested at its begin still stands at its end (CooldownOver).    *)
(* What a request has read was once so (GatesSeen).                        *)
(***************************************************************************)
EXTENDS ManualActions, TLAPS

Labels == {"idle", "source", "gate", "begin", "pick", "run", "end"}

(* TypeOK, by the group of variables it speaks of. *)
WorldTyped == cfg \in Configs /\ reading \in Readings /\ clock \in Nat

GuardTyped ==
  /\ inflight \in BOOLEAN
  /\ last \in Nat \cup {Never}
  /\ lastKey \in AnyKey
  /\ pendingKey \in AnyKey

RequestsTyped ==
  /\ pc \in [Requests -> Labels]
  /\ kindOf \in [Requests -> Kinds \cup {"none"}]
  /\ keyOf \in [Requests -> AnyKey]
  /\ cfgOf \in [Requests -> Configs \cup {NoConfig}]
  /\ sourceOf \in [Requests -> {"AC", "BATTERY", "UNKNOWN", "none"}]
  /\ startedAt \in [Requests -> Nat \cup {Never}]
  /\ executor \in [Requests -> {"real", "recording", "none"}]
  /\ done \in [Requests -> SUBSET Commands]
  /\ ran \in [Requests -> BOOLEAN]

HistoryTyped ==
  /\ ranAt \in Nat \cup {Never}
  /\ ranKey \in AnyKey
  /\ held \in [Requests -> SUBSET {"ready", "battery", "discharging"}]

(* A request past a read holds what it has read. *)
HoldsReads ==
  \A r \in Requests :
    /\ pc[r] = "idle" <=> cfgOf[r] = NoConfig
    /\ pc[r] \in {"begin", "pick", "run", "end"} <=> startedAt[r] # Never
    /\ pc[r] \in {"run", "end"} <=> executor[r] # "none"

Typed == WorldTyped /\ GuardTyped /\ RequestsTyped /\ HistoryTyped /\ HoldsReads

LEMMA TypedIsTypeOK == Typed <=> TypeOK
BY DEF Typed, WorldTyped, GuardTyped, RequestsTyped, HistoryTyped, HoldsReads, TypeOK, Labels

(* What the settings and the readings are made of. *)
LEMMA Given ==
  /\ NoKey \in AnyKey
  /\ NoConfig \notin Configs
  /\ \A c \in Configs : c.cooldown \in Nat
  /\ \A s \in Readings : s.source \in {"AC", "BATTERY", "UNKNOWN"}
BY ConstantsAssumption DEF AnyKey, ConfigType, ReadingType

(* The commands of a plan come one at a time, and from the plan. *)
LEMMA NextOfPlan ==
  ASSUME NEW r \in Requests, Plan(r) # {}
  PROVE  NextCommand(r) \in Plan(r) /\ Plan(r) \subseteq Commands
<1>1. Plan(r) \subseteq Commands
  BY DEF Plan, Commands
<1>2. Rank["stop_docker"] = 1 /\ Rank["sync"] = 2 /\ Rank["poweroff"] = 3
  BY DEF Rank
<1>3. \E c \in Plan(r) : \A d \in Plan(r) : Rank[c] <= Rank[d]
  <2>1. CASE "stop_docker" \in Plan(r)
    BY <1>1, <1>2, <2>1 DEF Commands
  <2>2. CASE "stop_docker" \notin Plan(r) /\ "sync" \in Plan(r)
    BY <1>1, <1>2, <2>2 DEF Commands
  <2>3. CASE "stop_docker" \notin Plan(r) /\ "sync" \notin Plan(r)
    BY <1>1, <1>2, <2>3 DEF Commands
  <2> QED
    BY <2>1, <2>2, <2>3
<1> QED
  BY <1>1, <1>3 DEF NextCommand

-----------------------------------------------------------------------------
(* Type correctness. *)

LEMMA TypedInit == Init => Typed
<1> SUFFICES ASSUME Init PROVE Typed
  OBVIOUS
<1>1. WorldTyped /\ GuardTyped
  BY Given DEF Init, WorldTyped, GuardTyped
<1>2. RequestsTyped
  BY Given DEF Init, RequestsTyped, Labels
<1>3. HistoryTyped /\ HoldsReads
  BY Given DEF Init, HistoryTyped, HoldsReads, Never
<1> QED
  BY <1>1, <1>2, <1>3 DEF Typed

LEMMA RespondTyped ==
  ASSUME Typed, NEW r \in Requests, Respond(r)
  PROVE  /\ RequestsTyped' /\ HoldsReads'
         /\ held' \in [Requests -> SUBSET {"ready", "battery", "discharging"}]
<1> USE Given DEF Typed, RequestsTyped, HistoryTyped, Respond, Goto
<1>1. RequestsTyped'
  BY DEF Labels
<1>2. HoldsReads'
  BY DEF HoldsReads, Never
<1>3. held' \in [Requests -> SUBSET {"ready", "battery", "discharging"}]
  OBVIOUS
<1> QED
  BY <1>1, <1>2, <1>3

LEMMA TypedStep == Typed /\ [Next]_vars => Typed'
<1> SUFFICES ASSUME Typed, [Next]_vars PROVE Typed'
  OBVIOUS
<1> USE Given
<1>1. CASE WorldChanges
  <2>1. held' \in [Requests -> SUBSET {"ready", "battery", "discharging"}]
    BY <1>1 DEF WorldChanges, Conditions, Typed, HistoryTyped
  <2> QED
    BY <1>1, <2>1 DEF WorldChanges, guardVars, requestVars, localVars, ranVars, Typed, WorldTyped,
         GuardTyped, RequestsTyped, HistoryTyped, HoldsReads
<1>2. CASE TimePasses
  BY <1>2 DEF TimePasses, guardVars, requestVars, localVars, historyVars, ranVars, Typed,
       WorldTyped, GuardTyped, RequestsTyped, HistoryTyped, HoldsReads
<1>3. CASE UNCHANGED vars
  BY <1>3 DEF vars, worldVars, guardVars, requestVars, localVars, historyVars, ranVars, Typed,
       WorldTyped, GuardTyped, RequestsTyped, HistoryTyped, HoldsReads
<1>4. ASSUME NEW r \in Requests, Receive(r) PROVE Typed'
  <2>1. PICK kind \in Kinds, key \in AnyKey :
          /\ kindOf' = [kindOf EXCEPT ![r] = kind]
          /\ keyOf' = [keyOf EXCEPT ![r] = key]
    BY <1>4 DEF Receive
  <2>2. RequestsTyped'
    BY <1>4, <2>1 DEF Receive, Goto, Typed, WorldTyped, RequestsTyped, Labels
  <2>3. HoldsReads'
    BY <1>4 DEF Receive, Goto, Typed, WorldTyped, RequestsTyped, HoldsReads
  <2>4. HistoryTyped'
    BY <1>4 DEF Receive, Conditions, ranVars, Typed, HistoryTyped
  <2> QED
    BY <1>4, <2>2, <2>3, <2>4 DEF Receive, worldVars, guardVars, Typed, WorldTyped, GuardTyped
<1>5. ASSUME NEW r \in Requests, ReadSource(r) PROVE Typed'
  <2>1. RequestsTyped' /\ HoldsReads'
    BY <1>5 DEF ReadSource, Goto, Typed, WorldTyped, RequestsTyped, HoldsReads, Labels
  <2> QED
    BY <1>5, <2>1 DEF ReadSource, worldVars, guardVars, historyVars, ranVars, Typed, WorldTyped,
         GuardTyped, HistoryTyped
<1>6. ASSUME NEW r \in Requests, Blocked(r) \/ BeginRefused(r) PROVE Typed'
  <2>1. Respond(r)
    BY <1>6 DEF Blocked, BeginRefused
  <2> QED
    BY <1>6, <2>1, RespondTyped DEF Blocked, BeginRefused, worldVars, guardVars, ranVars, Typed,
         WorldTyped, GuardTyped, HistoryTyped
<1>7. ASSUME NEW r \in Requests, TakeTime(r) PROVE Typed'
  <2>1. RequestsTyped' /\ HoldsReads'
    BY <1>7 DEF TakeTime, Goto, Typed, WorldTyped, RequestsTyped, HoldsReads, Labels, Never
  <2> QED
    BY <1>7, <2>1 DEF TakeTime, worldVars, guardVars, historyVars, ranVars, Typed, WorldTyped,
         GuardTyped, HistoryTyped
<1>8. ASSUME NEW r \in Requests, Begin(r) PROVE Typed'
  <2>1. RequestsTyped' /\ HoldsReads'
    BY <1>8 DEF Begin, Goto, localVars, Typed, RequestsTyped, HoldsReads, Labels
  <2>2. GuardTyped'
    BY <1>8 DEF Begin, Typed, GuardTyped, RequestsTyped
  <2> QED
    BY <1>8, <2>1, <2>2 DEF Begin, worldVars, historyVars, ranVars, Typed, WorldTyped, HistoryTyped
<1>9. ASSUME NEW r \in Requests, PickExecutor(r) PROVE Typed'
  <2>1. RequestsTyped' /\ HoldsReads'
    BY <1>9 DEF PickExecutor, Goto, Typed, RequestsTyped, HoldsReads, Labels
  <2> QED
    BY <1>9, <2>1 DEF PickExecutor, worldVars, guardVars, historyVars, ranVars, Typed, WorldTyped,
         GuardTyped, HistoryTyped
<1>10. ASSUME NEW r \in Requests, RunCommand(r) PROVE Typed'
  <2>1. done' \in [Requests -> SUBSET Commands]
    <3>1. NextCommand(r) \in Commands
      BY <1>10, NextOfPlan DEF RunCommand
    <3> QED
      BY <1>10, <3>1 DEF RunCommand, Typed, RequestsTyped
  <2> QED
    BY <1>10, <2>1 DEF RunCommand, worldVars, guardVars, localVars, historyVars, ranVars, Typed,
         WorldTyped, GuardTyped, RequestsTyped, HistoryTyped, HoldsReads
<1>11. ASSUME NEW r \in Requests, CommandFails(r) \/ Succeed(r) PROVE Typed'
  <2>1. /\ pc[r] = "run" /\ pc' = [pc EXCEPT ![r] = "end"]
        /\ UNCHANGED <<kindOf, keyOf, cfgOf, sourceOf, startedAt, executor, done>>
    BY <1>11 DEF CommandFails, Succeed, Goto, localVars
  <2>2. ran' \in [Requests -> BOOLEAN]
    BY <1>11 DEF CommandFails, Succeed, Typed, RequestsTyped
  <2>3. RequestsTyped'
    BY <2>1, <2>2 DEF Typed, RequestsTyped, Labels
  <2>4. HoldsReads'
    BY <2>1 DEF Typed, RequestsTyped, HoldsReads
  <2> QED
    BY <1>11, <2>3, <2>4 DEF CommandFails, Succeed, worldVars, guardVars, historyVars, ranVars, Typed,
         WorldTyped, GuardTyped, HistoryTyped
<1>12. ASSUME NEW r \in Requests, Finish(r) PROVE Typed'
  <2>1. startedAt[r] \in Nat \cup {Never} /\ keyOf[r] \in AnyKey
    BY DEF Typed, RequestsTyped
  <2>2. GuardTyped'
    BY <1>12, <2>1 DEF Finish, End, Typed, GuardTyped
  <2>3. ranAt' \in Nat \cup {Never} /\ ranKey' \in AnyKey
    BY <1>12, <2>1 DEF Finish, ranVars, Typed, HistoryTyped
  <2>4. Respond(r) /\ UNCHANGED worldVars
    BY <1>12 DEF Finish
  <2> QED
    BY <2>2, <2>3, <2>4, RespondTyped DEF worldVars, Typed, WorldTyped, HistoryTyped
<1> QED
  BY <1>1, <1>2, <1>3, <1>4, <1>5, <1>6, <1>7, <1>8, <1>9, <1>10, <1>11, <1>12
     DEF Next, Handle

(* Every variable keeps a value of the kind the code gives it. *)
THEOREM TypeCorrect == Spec => []TypeOK
<1>1. Typed => TypeOK
  BY TypedIsTypeOK
<1> QED
  BY TypedInit, TypedStep, <1>1, PTL DEF Spec

-----------------------------------------------------------------------------
(* The inductive invariant. *)

(* What the guard remembers is the last success. *)
GuardRemembers == last = ranAt /\ lastKey = ranKey

(* Nobody succeeds while a request holds the guard. *)
CooldownOver ==
  \A r \in Requests : Holding(r) => last = Never \/ startedAt[r] >= last + cfgOf[r].cooldown

(* A request has run its sequence only when it is about to give the guard back. *)
RanAtEnd == \A r \in Requests : ran[r] => pc[r] = "end"

(* While a request reads, what it has read has held. *)
ReadsWereSo ==
  \A r \in Requests :
    /\ pc[r] \in {"source", "gate"} =>
         /\ Conditions(cfg, reading) \subseteq held[r]
         /\ ManualActionsReady(cfgOf[r]) => "ready" \in held[r]
    /\ pc[r] = "gate" /\ sourceOf[r] = "BATTERY" => "battery" \in held[r]

(* Past the gates, all they ask for has held. *)
GatesPassed ==
  \A r \in Requests :
    pc[r] = "begin" \/ Holding(r) => held[r] = {"ready", "battery", "discharging"}

IInv == Typed /\ OneAtATime /\ GuardRemembers /\ CooldownOver /\ RanAtEnd /\ ReadsWereSo /\ GatesPassed

LEMMA IInvInit == Init => IInv
<1> SUFFICES ASSUME Init PROVE IInv
  OBVIOUS
<1>1. \A r \in Requests : pc[r] = "idle" /\ ran[r] = FALSE
  BY DEF Init
<1>2. OneAtATime /\ CooldownOver /\ RanAtEnd /\ ReadsWereSo /\ GatesPassed
  BY <1>1 DEF Init, OneAtATime, CooldownOver, RanAtEnd, ReadsWereSo, GatesPassed, Holding
<1>3. GuardRemembers
  BY DEF Init, GuardRemembers
<1> QED
  BY <1>2, <1>3, TypedInit DEF IInv

(* A request holds the guard from its Begin to its Finish. *)
LEMMA StepHolds ==
  ASSUME Typed, NEW r \in Requests, Receive(r) \/ Handle(r)
  PROVE  /\ \A q \in Requests \ {r} : pc'[q] = pc[q]
         /\ Holding(r)' <=> Begin(r) \/ (Holding(r) /\ ~Finish(r))
         /\ Finish(r) => Holding(r)
<1> USE DEF Typed, RequestsTyped
<1>1. CASE Receive(r)
  BY <1>1 DEF Receive, Begin, Finish, Goto, Holding
<1>2. CASE ReadSource(r) \/ TakeTime(r)
  BY <1>2 DEF ReadSource, TakeTime, Begin, Finish, Goto, Holding
<1>3. CASE Blocked(r) \/ BeginRefused(r)
  BY <1>3 DEF Blocked, BeginRefused, Respond, Begin, Finish, Goto, Holding
<1>4. CASE Begin(r)
  BY <1>4 DEF Begin, Finish, Goto, Holding
<1>5. CASE PickExecutor(r) \/ CommandFails(r) \/ Succeed(r)
  BY <1>5 DEF PickExecutor, CommandFails, Succeed, Begin, Finish, Goto, Holding
<1>6. CASE RunCommand(r)
  BY <1>6 DEF RunCommand, Begin, Finish, Holding
<1>7. CASE Finish(r)
  BY <1>7 DEF Finish, Respond, Begin, Goto, Holding
<1> QED
  BY <1>1, <1>2, <1>3, <1>4, <1>5, <1>6, <1>7 DEF Handle

(* Only Begin and Finish touch the guard, and they take it and give it back. *)
LEMMA StepGuards ==
  ASSUME NEW r \in Requests, Receive(r) \/ Handle(r)
  PROVE  /\ Begin(r) => ~inflight /\ inflight' /\ pendingKey' = keyOf[r] /\ UNCHANGED <<last, lastKey>>
         /\ Finish(r) => inflight' = FALSE
         /\ ~Begin(r) /\ ~Finish(r) => UNCHANGED guardVars
         /\ ~Finish(r) => UNCHANGED ranVars
BY DEF Receive, Handle, ReadSource, Blocked, TakeTime, BeginRefused, Begin, PickExecutor, RunCommand,
     CommandFails, Succeed, Finish, End, guardVars, historyVars, ranVars

(* A request keeps its key, its settings and its time while it holds the    *)
(* guard, and the others keep theirs.                                       *)
LEMMA StepKeeps ==
  ASSUME Typed, NEW r \in Requests, Receive(r) \/ Handle(r)
  PROVE  /\ \A q \in Requests \ {r} : /\ keyOf'[q] = keyOf[q] /\ cfgOf'[q] = cfgOf[q]
                                       /\ startedAt'[q] = startedAt[q]
                                       /\ ran'[q] = ran[q]
         /\ Begin(r) \/ (Holding(r) /\ ~Finish(r)) =>
              UNCHANGED <<keyOf, cfgOf, startedAt>>
<1> USE DEF Typed, RequestsTyped
<1>1. CASE Receive(r)
  BY <1>1 DEF Receive, Begin, Holding
<1>2. CASE ReadSource(r) \/ TakeTime(r)
  BY <1>2 DEF ReadSource, TakeTime, Begin, Holding
<1>3. CASE Blocked(r) \/ BeginRefused(r)
  BY <1>3 DEF Blocked, BeginRefused, Respond, Begin, Goto, Holding
<1>4. CASE Begin(r) \/ PickExecutor(r) \/ RunCommand(r) \/ CommandFails(r) \/ Succeed(r)
  BY <1>4 DEF Begin, PickExecutor, RunCommand, CommandFails, Succeed, localVars
<1>5. CASE Finish(r)
  BY <1>5 DEF Finish, Respond, Begin
<1> QED
  BY <1>1, <1>2, <1>3, <1>4, <1>5 DEF Handle

LEMMA OneAtATimeStep == IInv /\ [Next]_vars => OneAtATime'
<1> SUFFICES ASSUME IInv, [Next]_vars PROVE OneAtATime'
  OBVIOUS
<1> USE DEF IInv
<1>1. CASE WorldChanges \/ TimePasses \/ UNCHANGED vars
  BY <1>1 DEF WorldChanges, TimePasses, vars, guardVars, requestVars, localVars, OneAtATime, Holding
<1>2. ASSUME NEW r \in Requests, Receive(r) \/ Handle(r) PROVE OneAtATime'
  <2>1. \A q \in Requests \ {r} : (Holding(q)' <=> Holding(q)) /\ keyOf'[q] = keyOf[q]
    BY <1>2, StepHolds, StepKeeps DEF Holding
  <2>2. CASE Begin(r)
    <3>1. \A q \in Requests : ~Holding(q)
      BY <1>2, <2>2, StepGuards DEF OneAtATime
    <3>2. Holding(r)' /\ inflight' /\ pendingKey' = keyOf'[r]
      BY <1>2, <2>2, StepHolds, StepGuards, StepKeeps
    <3>3. \A q \in Requests : Holding(q)' <=> q = r
      BY <2>1, <3>1, <3>2
    <3>4. inflight' = TRUE
      BY <2>2 DEF Begin
    <3> QED
      BY <3>2, <3>3, <3>4 DEF OneAtATime
  <2>3. CASE Finish(r)
    <3>1. Holding(r) /\ ~Holding(r)' /\ inflight' = FALSE
      <4>1. ~Begin(r)
        BY <2>3 DEF Begin, Finish
      <4> QED
        BY <1>2, <2>3, <4>1, StepHolds, StepGuards
    <3>2. \A q \in Requests : ~Holding(q)'
      BY <2>1, <3>1 DEF OneAtATime
    <3> QED
      BY <3>1, <3>2 DEF OneAtATime
  <2>4. CASE ~Begin(r) /\ ~Finish(r)
    <3>1. inflight' = inflight /\ pendingKey' = pendingKey
      BY <1>2, <2>4, StepGuards DEF guardVars
    <3>2. \A q \in Requests : (Holding(q)' <=> Holding(q)) /\ (Holding(q) => keyOf'[q] = keyOf[q])
      BY <1>2, <2>1, <2>4, StepHolds, StepKeeps
    <3> QED
      BY <3>1, <3>2 DEF OneAtATime
  <2> QED
    BY <2>2, <2>3, <2>4
<1> QED
  BY <1>1, <1>2 DEF Next

LEMMA RanAtEndStep == IInv /\ [Next]_vars => RanAtEnd'
<1> SUFFICES ASSUME IInv, [Next]_vars PROVE RanAtEnd'
  OBVIOUS
<1> USE DEF IInv
<1>1. CASE WorldChanges \/ TimePasses \/ UNCHANGED vars
  BY <1>1 DEF WorldChanges, TimePasses, vars, requestVars, RanAtEnd
<1>2. ASSUME NEW r \in Requests, Receive(r) \/ Handle(r) PROVE RanAtEnd'
  <2>1. ran'[r] => pc'[r] = "end"
    <3> USE DEF Typed, RequestsTyped, RanAtEnd
    <3>1. CASE Blocked(r) \/ BeginRefused(r) \/ Finish(r)
      BY <3>1 DEF Blocked, BeginRefused, Finish, Respond
    <3>2. CASE Succeed(r)
      BY <3>2 DEF Succeed, Goto
    <3>3. CASE Receive(r) \/ ReadSource(r) \/ TakeTime(r) \/ Begin(r) \/ PickExecutor(r)
      BY <3>3 DEF Receive, ReadSource, TakeTime, Begin, PickExecutor
    <3>4. CASE RunCommand(r) \/ CommandFails(r)
      BY <3>4 DEF RunCommand, CommandFails
    <3> QED
      BY <1>2, <3>1, <3>2, <3>3, <3>4 DEF Handle
  <2> QED
    BY <1>2, <2>1, StepHolds, StepKeeps DEF RanAtEnd
<1> QED
  BY <1>1, <1>2 DEF Next

LEMMA GuardRemembersStep == IInv /\ [Next]_vars => GuardRemembers'
<1> SUFFICES ASSUME IInv, [Next]_vars PROVE GuardRemembers'
  OBVIOUS
<1> USE DEF IInv
<1>1. CASE WorldChanges \/ TimePasses \/ UNCHANGED vars
  BY <1>1 DEF WorldChanges, TimePasses, vars, guardVars, historyVars, ranVars, GuardRemembers
<1>2. ASSUME NEW r \in Requests, Receive(r) \/ Handle(r) PROVE GuardRemembers'
  <2>1. CASE Finish(r)
    <3>1. pendingKey = keyOf[r]
      BY <1>2, <2>1, StepHolds DEF OneAtATime
    <3> QED
      BY <2>1, <3>1 DEF Finish, End, ranVars, GuardRemembers
  <2>2. CASE ~Finish(r)
    BY <1>2, <2>2, StepGuards DEF guardVars, ranVars, GuardRemembers
  <2> QED
    BY <2>1, <2>2
<1> QED
  BY <1>1, <1>2 DEF Next

LEMMA CooldownOverStep == IInv /\ [Next]_vars => CooldownOver'
<1> SUFFICES ASSUME IInv, [Next]_vars PROVE CooldownOver'
  OBVIOUS
<1> USE DEF IInv
<1>1. CASE WorldChanges \/ TimePasses \/ UNCHANGED vars
  BY <1>1 DEF WorldChanges, TimePasses, vars, guardVars, requestVars, localVars, CooldownOver, Holding
<1>2. ASSUME NEW r \in Requests, Receive(r) \/ Handle(r) PROVE CooldownOver'
  <2>1. CASE Finish(r)
    <3>1. \A q \in Requests : ~Holding(q)'
      <4>1. Holding(r) /\ ~Begin(r)
        BY <1>2, <2>1, StepHolds DEF Begin, Finish
      <4> QED
        BY <1>2, <2>1, <4>1, StepHolds DEF OneAtATime, Holding
    <3> QED
      BY <3>1 DEF CooldownOver
  <2>2. CASE ~Finish(r)
    <3>1. last' = last
      BY <1>2, <2>2, StepGuards DEF guardVars
    <3>2. ASSUME NEW q \in Requests, Holding(q)'
          PROVE  /\ startedAt'[q] = startedAt[q] /\ cfgOf'[q] = cfgOf[q]
                 /\ last = Never \/ startedAt[q] >= last + cfgOf[q].cooldown
      <4>1. CASE q = r /\ Begin(r)
        <5>1. last = Never \/ ~(startedAt[q] < last + cfgOf[q].cooldown)
          BY <4>1 DEF Begin, InCooldown
        <5>2. last \in Nat \cup {Never} /\ startedAt[q] \in Nat /\ cfgOf[q].cooldown \in Nat
          BY <4>1, Given DEF Begin, Typed, GuardTyped, RequestsTyped, HoldsReads
        <5> QED
          BY <1>2, <4>1, <5>1, <5>2, StepKeeps
      <4>2. CASE q = r /\ ~Begin(r)
        BY <1>2, <2>2, <3>2, <4>2, StepHolds, StepKeeps DEF CooldownOver
      <4>3. CASE q # r
        BY <1>2, <3>2, <4>3, StepHolds, StepKeeps DEF CooldownOver, Holding
      <4> QED
        BY <4>1, <4>2, <4>3
    <3> QED
      BY <3>1, <3>2 DEF CooldownOver
  <2> QED
    BY <2>1, <2>2
<1> QED
  BY <1>1, <1>2 DEF Next

(* A request changes nothing of what the others have read, or of the world. *)
LEMMA StepReads ==
  ASSUME Typed, NEW r \in Requests, Receive(r) \/ Handle(r)
  PROVE  /\ \A q \in Requests \ {r} : held'[q] = held[q] /\ sourceOf'[q] = sourceOf[q]
         /\ UNCHANGED <<cfg, reading>>
<1> USE DEF Typed, RequestsTyped, HistoryTyped
<1>1. CASE Receive(r)
  BY <1>1 DEF Receive, worldVars
<1>2. CASE ReadSource(r)
  BY <1>2 DEF ReadSource, worldVars, historyVars
<1>3. CASE Blocked(r) \/ BeginRefused(r) \/ Finish(r)
  BY <1>3 DEF Blocked, BeginRefused, Finish, Respond, worldVars
<1>4. CASE TakeTime(r) \/ PickExecutor(r)
  BY <1>4 DEF TakeTime, PickExecutor, worldVars, historyVars
<1>5. CASE Begin(r) \/ RunCommand(r) \/ CommandFails(r) \/ Succeed(r)
  BY <1>5 DEF Begin, RunCommand, CommandFails, Succeed, localVars, worldVars, historyVars
<1> QED
  BY <1>1, <1>2, <1>3, <1>4, <1>5 DEF Handle

(* ReadsWereSo and GatesPassed, of one request. *)
ReadSo(r) ==
  /\ pc[r] \in {"source", "gate"} =>
       /\ Conditions(cfg, reading) \subseteq held[r]
       /\ ManualActionsReady(cfgOf[r]) => "ready" \in held[r]
  /\ pc[r] = "gate" /\ sourceOf[r] = "BATTERY" => "battery" \in held[r]

Passed(r) == pc[r] = "begin" \/ Holding(r) => held[r] = {"ready", "battery", "discharging"}

LEMMA ReadsStep == IInv /\ [Next]_vars => (ReadsWereSo /\ GatesPassed)'
<1> SUFFICES ASSUME IInv, [Next]_vars PROVE \A r \in Requests : (ReadSo(r) /\ Passed(r))'
  BY DEF ReadsWereSo, GatesPassed, ReadSo, Passed
<1>0. \A r \in Requests : ReadSo(r) /\ Passed(r)
  BY DEF IInv, ReadsWereSo, GatesPassed, ReadSo, Passed
<1> USE DEF IInv, Typed, RequestsTyped, HistoryTyped
<1>1. CASE TimePasses \/ UNCHANGED vars
  BY <1>0, <1>1 DEF TimePasses, vars, worldVars, requestVars, localVars, historyVars, ReadSo, Passed, Holding
<1>2. CASE WorldChanges
  <2> TAKE r \in Requests
  <2>1. UNCHANGED <<pc, cfgOf, sourceOf>>
    BY <1>2 DEF WorldChanges, requestVars, localVars
  <2>2. CASE pc[r] \in {"source", "gate"}
    <3>1. held'[r] = held[r] \cup Conditions(cfg', reading')
      BY <1>2, <2>2 DEF WorldChanges
    <3> QED
      BY <1>0, <2>1, <2>2, <3>1 DEF ReadSo, Passed, Holding
  <2>3. CASE pc[r] \notin {"source", "gate"}
    <3>1. held'[r] = held[r]
      BY <1>2, <2>3 DEF WorldChanges
    <3> QED
      BY <1>0, <2>1, <2>3, <3>1 DEF ReadSo, Passed, Holding
  <2> QED
    BY <2>2, <2>3
<1>3. ASSUME NEW r \in Requests, Receive(r) \/ Handle(r), NEW q \in Requests
      PROVE  (ReadSo(q) /\ Passed(q))'
  <2>1. CASE q # r
    <3>1. pc'[q] = pc[q] /\ cfgOf'[q] = cfgOf[q] /\ held'[q] = held[q] /\ sourceOf'[q] = sourceOf[q]
      BY <1>3, <2>1, StepHolds, StepKeeps, StepReads
    <3>2. UNCHANGED <<cfg, reading>>
      BY <1>3, StepReads
    <3> QED
      BY <1>0, <3>1, <3>2 DEF ReadSo, Passed, Holding
  <2>2. CASE q = r
    <3>1. CASE Receive(r)
      <4>1. /\ pc'[r] = "source" /\ cfgOf'[r] = cfg /\ held'[r] = Conditions(cfg, reading)
            /\ UNCHANGED <<cfg, reading>>
        <5>1. Conditions(cfg, reading) \subseteq {"ready", "battery", "discharging"}
          BY DEF Conditions
        <5> QED
          BY <3>1, <5>1 DEF Receive, Goto, worldVars
      <4> QED
        BY <2>2, <4>1 DEF ReadSo, Passed, Holding, Conditions
    <3>2. CASE ReadSource(r)
      <4>1. /\ pc[r] = "source" /\ pc'[r] = "gate" /\ sourceOf'[r] = reading.source
            /\ UNCHANGED <<cfg, reading, cfgOf, held>>
        BY <3>2, Given DEF ReadSource, Goto, worldVars, historyVars, WorldTyped
      <4>2. reading.source = "BATTERY" => "battery" \in Conditions(cfg, reading)
        BY DEF Conditions
      <4> QED
        BY <1>0, <2>2, <4>1, <4>2 DEF ReadSo, Passed, Holding
    <3>3. CASE TakeTime(r)
      <4>1. /\ pc[r] = "gate" /\ pc'[r] = "begin" /\ held' = held
            /\ ManualActionsReady(cfgOf[r]) /\ sourceOf[r] = "BATTERY" /\ reading.discharging
        BY <3>3 DEF TakeTime, SafetyGate, Goto, historyVars
      <4>2. "discharging" \in Conditions(cfg, reading)
        BY <4>1 DEF Conditions
      <4>3. held[r] = {"ready", "battery", "discharging"}
        BY <1>0, <4>1, <4>2 DEF ReadSo
      <4> QED
        BY <2>2, <4>1, <4>3 DEF ReadSo, Passed
    <3>4. CASE Blocked(r) \/ BeginRefused(r) \/ Finish(r)
      <4>1. pc'[r] = "idle"
        BY <3>4 DEF Blocked, BeginRefused, Finish, Respond, Goto
      <4> QED
        BY <2>2, <4>1 DEF ReadSo, Passed, Holding
    <3>5. CASE Begin(r)
      <4>1. pc[r] = "begin" /\ pc'[r] = "pick" /\ held' = held
        BY <3>5 DEF Begin, Goto, historyVars
      <4> QED
        BY <1>0, <2>2, <4>1 DEF ReadSo, Passed, Holding
    <3>6. CASE PickExecutor(r) \/ RunCommand(r) \/ CommandFails(r) \/ Succeed(r)
      <4>1. Holding(r) /\ pc'[r] \in {"run", "end"} /\ held' = held
        BY <3>6 DEF PickExecutor, RunCommand, CommandFails, Succeed, Goto, Holding, historyVars
      <4> QED
        BY <1>0, <2>2, <4>1 DEF ReadSo, Passed, Holding
    <3> QED
      BY <1>3, <3>1, <3>2, <3>3, <3>4, <3>5, <3>6 DEF Handle
  <2> QED
    BY <2>1, <2>2
<1> QED
  BY <1>1, <1>2, <1>3 DEF Next

LEMMA IInvStep == IInv /\ [Next]_vars => IInv'
BY TypedStep, OneAtATimeStep, GuardRemembersStep, CooldownOverStep, RanAtEndStep, ReadsStep DEF IInv

(* The guard is taken exactly while one request runs its sequence, and it   *)
(* remembers the key of that one: no two sequences run at once.             *)
THEOREM GuardIsExclusive == Spec => []OneAtATime
<1>1. IInv => OneAtATime
  BY DEF IInv
<1> QED
  BY IInvInit, IInvStep, <1>1, PTL DEF Spec

-----------------------------------------------------------------------------
(* Action properties. *)

(* Two sequences that succeed are a cooldown apart, whatever the order in   *)
(* which the requests took the time and the guard.                          *)
THEOREM CooldownKept == Spec => SuccessesApart
<1> DEFINE Apart ==
      \A r \in Requests : ran[r] /\ pc'[r] = "idle" =>
        ranAt = Never \/ startedAt[r] >= ranAt + cfgOf[r].cooldown
<1>1. IInv => Apart
  <2> SUFFICES ASSUME IInv, NEW r \in Requests, ran[r]
               PROVE  ranAt = Never \/ startedAt[r] >= ranAt + cfgOf[r].cooldown
    OBVIOUS
  <2>1. Holding(r)
    BY DEF IInv, RanAtEnd, Holding
  <2> QED
    BY <2>1 DEF IInv, CooldownOver, GuardRemembers
<1>2. IInv /\ [Next]_vars => [Apart]_vars
  BY <1>1
<1> QED
  BY IInvInit, IInvStep, <1>2, PTL DEF Spec, SuccessesApart

(* A request is told it is a duplicate only of a sequence that is running,  *)
(* or that has succeeded within the cooldown.                               *)
THEOREM DuplicatesHaveRun == Spec => DuplicateHasRun
<1> DEFINE Turned ==
      \A r \in Requests : pc[r] = "begin" /\ pc'[r] = "idle" /\ Duplicate(r) =>
        \/ \E q \in Requests : Holding(q) /\ keyOf[q] = keyOf[r]
        \/ ranKey = keyOf[r] /\ ranAt # Never /\ startedAt[r] < ranAt + cfgOf[r].cooldown
<1>1. IInv /\ Next => Turned
  <2> SUFFICES ASSUME IInv, Next, NEW r \in Requests, pc[r] = "begin", pc'[r] = "idle", Duplicate(r)
               PROVE  \/ \E q \in Requests : Holding(q) /\ keyOf[q] = keyOf[r]
                      \/ ranKey = keyOf[r] /\ ranAt # Never /\ startedAt[r] < ranAt + cfgOf[r].cooldown
    OBVIOUS
  <2> USE DEF IInv
  <2>1. BeginRefused(r)
    <3>1. ~WorldChanges /\ ~TimePasses
      BY DEF WorldChanges, TimePasses, requestVars
    <3>2. PICK q \in Requests : Receive(q) \/ Handle(q)
      BY <3>1 DEF Next
    <3>3. q = r
      BY <3>2, StepHolds
    <3> QED
      BY <3>2, <3>3 DEF Receive, Handle, ReadSource, Blocked, TakeTime, Begin, PickExecutor, RunCommand,
           CommandFails, Succeed, Finish, Goto, Typed, RequestsTyped
  <2>2. CASE inflight
    BY <2>2 DEF OneAtATime, Duplicate
  <2>3. CASE ~inflight
    BY <2>1, <2>3 DEF BeginRefused, InCooldown, Duplicate, GuardRemembers
  <2> QED
    BY <2>2, <2>3
<1>2. IInv /\ [Next]_vars => [Turned]_vars
  BY <1>1
<1> QED
  BY IInvInit, IInvStep, <1>2, PTL DEF Spec, DuplicateHasRun

(* A host command runs only for a request during whose reads real actions   *)
(* were ready, the mains were off and the battery discharged.               *)
THEOREM GatesAreHonoured == Spec => GatesHonoured
<1> DEFINE Honoured ==
      \A r \in Requests : done'[r] \ done[r] # {} /\ executor[r] = "real" =>
        held[r] = {"ready", "battery", "discharging"}
<1>1. IInv => Honoured
  <2> SUFFICES ASSUME IInv, NEW r \in Requests, executor[r] = "real"
               PROVE  held[r] = {"ready", "battery", "discharging"}
    OBVIOUS
  <2>1. Holding(r)
    BY DEF IInv, Typed, HoldsReads, Holding
  <2> QED
    BY <2>1 DEF IInv, GatesPassed
<1>2. IInv /\ [Next]_vars => [Honoured]_vars
  BY <1>1
<1> QED
  BY IInvInit, IInvStep, <1>2, PTL DEF Spec, GatesHonoured
=============================================================================
