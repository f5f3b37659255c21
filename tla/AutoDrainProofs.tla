-------------------------- MODULE AutoDrainProofs --------------------------
(***************************************************************************)
(* Theorems about AutoDrain, for every set of requests, settings and       *)
(* readings, and for any number of prompts.                                *)
(*                                                                         *)
(* The safety invariants are not inductive alone: that an answer is        *)
(* accepted once rests on the prompt being unanswered while it is open,    *)
(* which rests on nobody answering while the lock is free for the warning, *)
(* which rests on the notified flag.  IInv adds these links, and who may   *)
(* carry which answer between Respond and execute.                         *)
(***************************************************************************)
EXTENDS AutoDrain, TLAPS

Carrying == {"execute"} \cup Running

Settled == {"none", "failed"}

(* A thread past its first read of the settings holds some. *)
HasConfig ==
  \A t \in Threads : pc[t] \notin {"idle", "config"} => cfgOf[t] \in Configs

(* A prompt that is being sent or waits has no answer yet. *)
OpenIsUnanswered ==
  Sending \/ state = Awaiting => prompt \in Prompts /\ answer[prompt] = "none"

OpenWasAccepted ==
  pc[Ticker] = "accepted" \/ state = Awaiting => receipt[prompt] \notin Settled

AbortedIsNo ==
  state = Aborted => prompt \in Prompts /\ answer[prompt] = "no"

(* While the poll goroutine executes no prompt opens, so none is declined. *)
TickerExecutes ==
  pc[Ticker] \in Carrying => state \in {Idle, TimedOut, Executing}

History ==
  \A p \in Prompts :
    /\ p > prompt => answer[p] = "none"
    /\ answer[p] # "twice"
    /\ answer[p] # "none" => receipt[p] \notin Settled
    /\ runs[p] \in {0, 1}
    /\ runs[p] = 1 => answer[p] \in {"yes", "timeout"}

(* A thread that executes carries an answered prompt, its sequence not yet  *)
(* started, and no other thread carries the same.                           *)
Carriers ==
  /\ \A t \in Threads : pc[t] \in Carrying =>
       /\ promptOf[t] \in Prompts
       /\ answer[promptOf[t]] \in {"yes", "timeout"}
       /\ pc[t] = "execute" => runs[promptOf[t]] = 0
  /\ \A t, u \in Threads :
       t # u /\ pc[t] \in Carrying /\ pc[u] \in Carrying => promptOf[t] # promptOf[u]

(* Commands of a sequence that runs on the host have left their trace. *)
CommandsInOrder ==
  \A t \in Threads : executor[t] = "real" =>
    /\ pc[t] \in {"sync", "poweroff"} => <<promptOf[t], "stop_docker">> \in host
    /\ pc[t] = "poweroff" => <<promptOf[t], "sync">> \in host

(* What ran on the host belongs to a sequence that was started, with an     *)
(* executor that the settings its thread holds allow.                       *)
OnHost ==
  /\ \A p \in Prompts : <<p, "poweroff">> \in host => runs[p] # 0
  /\ \A t \in Threads :
       /\ executor[t] = "real" => pc[t] \in Running /\ ManualActionsReady(cfgOf[t])
       /\ pc[t] \in Running => runs[promptOf[t]] # 0
       /\ pc[t] \in Running /\ executor[t] # "real" => <<promptOf[t], "poweroff">> \notin host

-----------------------------------------------------------------------------
(* Type correctness.  TypeOK is taken apart by the group of variables it    *)
(* speaks of, with HasConfig in the group of the threads.                   *)

WorldTyped ==
  /\ cfg \in Configs
  /\ resetPending \in BOOLEAN
  /\ reading \in Readings
  /\ clock \in Nat

MachineTyped ==
  /\ state \in States
  /\ notified \in BOOLEAN
  /\ deadline \in Nat
  /\ lastResponse \in {"none", "yes", "no", "timeout"}
  /\ lastSample \in Readings \cup {NoReading}
  /\ commandsExecuted \in BOOLEAN

ThreadsTyped ==
  /\ pc \in [Threads -> Labels]
  /\ cfgOf \in [Threads -> Configs \cup {NoConfig}]
  /\ sampleOf \in [Threads -> Readings \cup {NoReading}]
  /\ sampledAt \in Nat
  /\ executor \in [Threads -> {"none", "recording", "real"}]
  /\ promptOf \in [Threads -> 0 .. MaxPrompts]
  /\ HasConfig

HistoryTyped ==
  /\ prompt \in 0 .. MaxPrompts
  /\ receipt \in [Prompts -> {"none", "delivered", "dry_run", "panicked", "failed"}]
  /\ answer \in [Prompts -> {"none", "yes", "no", "timeout", "twice"}]
  /\ runs \in [Prompts -> Nat]
  /\ host \subseteq ((0 .. MaxPrompts) \X Commands)

Typed == WorldTyped /\ MachineTyped /\ ThreadsTyped /\ HistoryTyped

LEMMA TypedIsTypeOK == Typed <=> TypeOK /\ HasConfig
BY DEF Typed, WorldTyped, MachineTyped, ThreadsTyped, HistoryTyped, TypeOK

LEMMA ConfigTimeout == \A c \in Configs : c.timeout \in Nat
BY ConstantsAssumption DEF ConfigType

LEMMA UnchangedTyped ==
  /\ WorldTyped /\ UNCHANGED <<serverVars, worldVars>> => WorldTyped'
  /\ MachineTyped /\ UNCHANGED machineVars => MachineTyped'
  /\ ThreadsTyped /\ UNCHANGED threadVars => ThreadsTyped'
  /\ HistoryTyped /\ UNCHANGED historyVars => HistoryTyped'
<1>1. WorldTyped /\ UNCHANGED <<serverVars, worldVars>> => WorldTyped'
  BY DEF WorldTyped, serverVars, worldVars
<1>2. MachineTyped /\ UNCHANGED machineVars => MachineTyped'
  BY DEF MachineTyped, machineVars
<1>3. ThreadsTyped /\ UNCHANGED threadVars => ThreadsTyped'
  BY DEF ThreadsTyped, HasConfig, threadVars
<1>4. HistoryTyped /\ UNCHANGED historyVars => HistoryTyped'
  BY DEF HistoryTyped, historyVars
<1> QED
  BY <1>1, <1>2, <1>3, <1>4

LEMMA ForgetTyped ==
  ASSUME ForgetPrompt
  PROVE  /\ notified' \in BOOLEAN
         /\ deadline' \in Nat
         /\ lastResponse' \in {"none", "yes", "no", "timeout"}
         /\ commandsExecuted' \in BOOLEAN
BY DEF ForgetPrompt

(* A reset leaves the last sample, which Tick may have written before it.   *)
LEMMA ResetTyped ==
  ASSUME ResetToIdle, lastSample' \in Readings \cup {NoReading}
  PROVE  MachineTyped'
BY ForgetTyped DEF ResetToIdle, MachineTyped, States

LEMMA ReturnTyped ==
  ASSUME NEW t \in Threads, ThreadsTyped, Return(t)
  PROVE  ThreadsTyped'
<1>1. HasConfig'
  BY DEF ThreadsTyped, HasConfig, Return
<1>2. promptOf' \in [Threads -> 0 .. MaxPrompts]
  BY ConstantsAssumption DEF ThreadsTyped, Return
<1> QED
  BY <1>1, <1>2 DEF ThreadsTyped, Return, Labels

(* A thread that holds settings moves on, its other locals unchanged. *)
LEMMA GotoTyped ==
  ASSUME NEW t \in Threads, NEW label \in Labels, ThreadsTyped, Goto(t, label),
         cfgOf[t] \in Configs,
         UNCHANGED <<cfgOf, sampleOf, sampledAt, executor, promptOf>>
  PROVE  ThreadsTyped'
BY DEF ThreadsTyped, HasConfig, Goto

LEMMA TypedInit == Init => Typed
<1> SUFFICES ASSUME Init PROVE Typed
  OBVIOUS
<1>1. WorldTyped
  BY DEF Init, WorldTyped
<1>2. MachineTyped
  BY DEF Init, MachineTyped, States
<1>3. ThreadsTyped
  <2>1. promptOf \in [Threads -> 0 .. MaxPrompts]
    BY ConstantsAssumption DEF Init
  <2> QED
    BY <2>1 DEF Init, ThreadsTyped, HasConfig, Labels
<1>4. HistoryTyped
  BY ConstantsAssumption DEF Init, HistoryTyped
<1> QED
  BY <1>1, <1>2, <1>3, <1>4 DEF Typed

LEMMA TypedStep == Typed /\ [Next]_vars => Typed'
<1> SUFFICES ASSUME Typed, [Next]_vars PROVE Typed'
  OBVIOUS
<1> USE DEF Typed
<1>1. CASE ReadingChanges
  <2>1. WorldTyped'
    BY <1>1 DEF ReadingChanges, WorldTyped, serverVars, worldVars
  <2> QED
    BY <1>1, <2>1, UnchangedTyped DEF Typed, ReadingChanges
<1>2. CASE TimePasses
  <2>1. WorldTyped'
    BY <1>2 DEF TimePasses, WorldTyped, serverVars, worldVars
  <2> QED
    BY <1>2, <2>1, UnchangedTyped DEF Typed, TimePasses
<1>3. CASE PutConfig
  <2>1. WorldTyped'
    BY <1>3 DEF PutConfig, WorldTyped, serverVars, worldVars
  <2> QED
    BY <1>3, <2>1, UnchangedTyped DEF Typed, PutConfig
<1>4. CASE PutAutoDrainConfig
  <2>1. WorldTyped'
    BY <1>4 DEF PutAutoDrainConfig, WorldTyped, serverVars, worldVars
  <2> QED
    BY <1>4, <2>1, UnchangedTyped DEF Typed, PutAutoDrainConfig
<1>5. CASE Reset
  <2>1. WorldTyped'
    BY <1>5 DEF Reset, WorldTyped, serverVars, worldVars
  <2>2. MachineTyped'
    BY <1>5, ResetTyped DEF Reset, MachineTyped
  <2> QED
    BY <1>5, <2>1, <2>2, UnchangedTyped DEF Typed, Reset
<1>6. CASE Poll
  <2>1. ThreadsTyped'
    BY <1>6 DEF Poll, Goto, ThreadsTyped, HasConfig, Labels, Threads, WorldTyped
  <2> QED
    BY <1>6, <2>1, UnchangedTyped DEF Typed, Poll
<1>7. CASE TickConfig
  <2>1. ThreadsTyped'
    BY <1>7 DEF TickConfig, Goto, ThreadsTyped, HasConfig, Labels, Threads, WorldTyped
  <2> QED
    BY <1>7, <2>1, UnchangedTyped DEF Typed, TickConfig
<1>8. CASE TickDisabled
  <2>1. MachineTyped'
    BY <1>8, ResetTyped DEF TickDisabled, TickLocked, ThreadsTyped, Threads
  <2>2. ThreadsTyped'
    BY <1>8, ReturnTyped DEF TickDisabled, Threads
  <2> QED
    BY <1>8, <2>1, <2>2, UnchangedTyped DEF Typed, TickDisabled, TickLocked
<1>9. CASE TickQuiet
  <2>1. MachineTyped'
    <3>1. CASE Rearms(sampleOf[Ticker])
      BY <1>9, <3>1, ResetTyped DEF TickQuiet, TickLocked, ThreadsTyped, Threads
    <3>2. CASE ~Rearms(sampleOf[Ticker])
      BY <1>9, <3>2 DEF TickQuiet, TickLocked, ThreadsTyped, Threads, MachineTyped, States
    <3> QED
      BY <3>1, <3>2
  <2>2. ThreadsTyped'
    BY <1>9, ReturnTyped DEF TickQuiet, Threads
  <2> QED
    BY <1>9, <2>1, <2>2, UnchangedTyped DEF Typed, TickQuiet, TickLocked
<1>10. CASE TickWarn
  <2>1. MachineTyped'
    <3>1. lastSample' \in Readings \cup {NoReading}
      BY <1>10 DEF TickWarn, TickLocked, ThreadsTyped, Threads
    <3>2. state' \in States
      BY <1>10 DEF TickWarn, States
    <3>3. /\ notified' \in BOOLEAN
          /\ deadline' \in Nat
          /\ lastResponse' \in {"none", "yes", "no", "timeout"}
          /\ commandsExecuted' \in BOOLEAN
      <4>1. CASE Rearms(sampleOf[Ticker])
        BY <1>10, <4>1, ForgetTyped DEF TickWarn
      <4>2. CASE ~Rearms(sampleOf[Ticker])
        BY <1>10, <4>2 DEF TickWarn, MachineTyped
      <4> QED
        BY <4>1, <4>2
    <3> QED
      BY <3>1, <3>2, <3>3 DEF MachineTyped
  <2>2. ThreadsTyped'
    BY <1>10, GotoTyped DEF TickWarn, TickLocked, ThreadsTyped, HasConfig, Labels, Threads,
           Running, Commands
  <2>3. HistoryTyped'
    BY <1>10, ConstantsAssumption DEF TickWarn, HistoryTyped, ThreadsTyped, Threads, Prompts
  <2> QED
    BY <1>10, <2>1, <2>2, <2>3, UnchangedTyped DEF Typed, TickWarn, TickLocked
<1>11. CASE TickWithdraw
  <2>1. MachineTyped'
    BY <1>11, ResetTyped DEF TickWithdraw, TickLocked, ThreadsTyped, Threads
  <2>2. ThreadsTyped'
    BY <1>11, ReturnTyped DEF TickWithdraw, Threads
  <2> QED
    BY <1>11, <2>1, <2>2, UnchangedTyped DEF Typed, TickWithdraw, TickLocked
<1>12. CASE TickTimeout
  <2>1. MachineTyped'
    BY <1>12 DEF TickTimeout, TickLocked, Accept, MachineTyped, ThreadsTyped, States,
           Threads
  <2>2. ThreadsTyped'
    BY <1>12 DEF TickTimeout, Goto, ThreadsTyped, HasConfig, Labels, Threads, HistoryTyped,
           TickLocked, Accept
  <2>3. HistoryTyped'
    BY <1>12, ConstantsAssumption DEF TickTimeout, Accept, HistoryTyped, ThreadsTyped,
           Threads, Prompts
  <2> QED
    BY <1>12, <2>1, <2>2, <2>3, UnchangedTyped DEF Typed, TickTimeout, TickLocked
<1>13. CASE SendWarning
  <2>1. ThreadsTyped'
    BY <1>13, GotoTyped DEF SendWarning, ThreadsTyped, HasConfig, Labels, Threads, Running,
           Commands
  <2>2. HistoryTyped'
    BY <1>13, ConstantsAssumption DEF SendWarning, CountsAsSent, HistoryTyped, ThreadsTyped,
           Threads, Prompts
  <2> QED
    BY <1>13, <2>1, <2>2, UnchangedTyped DEF Typed, SendWarning
<1>14. CASE WarningAccepted
  <2>1. MachineTyped'
    BY <1>14, ConfigTimeout DEF WarningAccepted, Deadline, MachineTyped, ThreadsTyped,
           HasConfig, States, Threads
  <2>2. ThreadsTyped'
    BY <1>14, ReturnTyped DEF WarningAccepted, Threads
  <2> QED
    BY <1>14, <2>1, <2>2, UnchangedTyped DEF Typed, WarningAccepted
<1>15. CASE WarningRefused
  <2>1. MachineTyped'
    BY <1>15, ResetTyped DEF WarningRefused, MachineTyped
  <2>2. ThreadsTyped'
    BY <1>15, ReturnTyped DEF WarningRefused, Threads
  <2> QED
    BY <1>15, <2>1, <2>2, UnchangedTyped DEF Typed, WarningRefused
<1>16. ASSUME NEW t \in Responders, RespondConfig(t) PROVE Typed'
  <2>1. ThreadsTyped'
    BY <1>16 DEF RespondConfig, Goto, ThreadsTyped, HasConfig, Labels, Threads, WorldTyped
  <2> QED
    BY <1>16, <2>1, UnchangedTyped DEF Typed, RespondConfig
<1>17. ASSUME NEW t \in Responders, RespondNothingPending(t) PROVE Typed'
  <2>1. MachineTyped'
    <3>1. CASE state \in {WarningSent, Awaiting}
      BY <1>17, <3>1, ResetTyped DEF RespondNothingPending, MachineTyped
    <3>2. CASE state \notin {WarningSent, Awaiting}
      BY <1>17, <3>2 DEF RespondNothingPending, MachineTyped
    <3> QED
      BY <3>1, <3>2
  <2>2. ThreadsTyped'
    BY <1>17, ReturnTyped DEF RespondNothingPending, Threads
  <2> QED
    BY <1>17, <2>1, <2>2, UnchangedTyped DEF Typed, RespondNothingPending
<1>18. ASSUME NEW t \in Responders, RespondNo(t) PROVE Typed'
  <2>1. MachineTyped'
    BY <1>18 DEF RespondNo, MachineTyped, States
  <2>2. ThreadsTyped'
    BY <1>18, ReturnTyped DEF RespondNo, Threads
  <2>3. HistoryTyped'
    BY <1>18, ConstantsAssumption DEF RespondNo, HistoryTyped, Prompts
  <2> QED
    BY <1>18, <2>1, <2>2, <2>3, UnchangedTyped DEF Typed, RespondNo
<1>19. ASSUME NEW t \in Responders, RespondYes(t) PROVE Typed'
  <2>1. MachineTyped'
    BY <1>19 DEF RespondYes, Accept, MachineTyped, States
  <2>2. ThreadsTyped'
    BY <1>19 DEF RespondYes, Goto, ThreadsTyped, HasConfig, Labels, Threads, HistoryTyped,
           MachineTyped, Accept
  <2>3. HistoryTyped'
    BY <1>19, ConstantsAssumption DEF RespondYes, Accept, HistoryTyped, Prompts
  <2> QED
    BY <1>19, <2>1, <2>2, <2>3, UnchangedTyped DEF Typed, RespondYes
<1>20. ASSUME NEW t \in Threads, ExecuteRefused(t) PROVE Typed'
  <2>1. MachineTyped'
    BY <1>20 DEF ExecuteRefused, MachineTyped, States
  <2>2. ThreadsTyped'
    BY <1>20, ReturnTyped DEF ExecuteRefused, Threads
  <2> QED
    BY <1>20, <2>1, <2>2, UnchangedTyped DEF Typed, ExecuteRefused
<1>21. ASSUME NEW t \in Threads, ExecuteBlocked(t) PROVE Typed'
  <2>1. MachineTyped'
    BY <1>21 DEF ExecuteBlocked, MachineTyped, States
  <2>2. ThreadsTyped'
    BY <1>21, ReturnTyped DEF ExecuteBlocked, Threads
  <2> QED
    BY <1>21, <2>1, <2>2, UnchangedTyped DEF Typed, ExecuteBlocked
<1>22. ASSUME NEW t \in Threads, ExecuteStart(t) PROVE Typed'
  <2>1. MachineTyped'
    BY <1>22 DEF ExecuteStart, MachineTyped, States
  <2>2. ThreadsTyped'
    BY <1>22 DEF ExecuteStart, Goto, ThreadsTyped, HasConfig, Labels, Threads, PickExecutor,
           Running, Commands
  <2>3. HistoryTyped'
    <3>1. runs' \in [Prompts -> Nat]
      <4>1. CASE promptOf[t] \in Prompts
        BY <1>22, <4>1 DEF ExecuteStart, HistoryTyped
      <4>2. CASE promptOf[t] \notin Prompts
        BY <1>22, <4>2 DEF ExecuteStart, HistoryTyped
      <4> QED
        BY <4>1, <4>2
    <3> QED
      BY <1>22, <3>1 DEF ExecuteStart, HistoryTyped
  <2> QED
    BY <1>22, <2>1, <2>2, <2>3, UnchangedTyped DEF Typed, ExecuteStart
<1>23. ASSUME NEW t \in Threads, RunCommand(t) PROVE Typed'
  <2>1. ThreadsTyped'
    BY <1>23, GotoTyped DEF RunCommand, ThreadsTyped, HasConfig, Labels, Threads, Running,
           Commands, After
  <2>2. HistoryTyped'
    <3>1. <<promptOf[t], pc[t]>> \in (0 .. MaxPrompts) \X Commands
      BY <1>23 DEF RunCommand, ThreadsTyped
    <3> QED
      BY <1>23, <3>1 DEF RunCommand, HistoryTyped
  <2> QED
    BY <1>23, <2>1, <2>2, UnchangedTyped DEF Typed, RunCommand
<1>24. ASSUME NEW t \in Threads, CommandFails(t) PROVE Typed'
  <2>1. ThreadsTyped'
    BY <1>24, GotoTyped DEF CommandFails, ThreadsTyped, HasConfig, Labels, Threads, Running,
           Commands
  <2> QED
    BY <1>24, <2>1, UnchangedTyped DEF Typed, CommandFails
<1>25. ASSUME NEW t \in Threads, Finish(t) PROVE Typed'
  <2>1. MachineTyped'
    BY <1>25 DEF Finish, MachineTyped, States
  <2>2. ThreadsTyped'
    BY <1>25, ReturnTyped DEF Finish, Threads
  <2> QED
    BY <1>25, <2>1, <2>2, UnchangedTyped DEF Typed, Finish
<1>26. CASE UNCHANGED vars
  BY <1>26, UnchangedTyped DEF vars
<1> QED
  BY <1>1, <1>2, <1>3, <1>4, <1>5, <1>6, <1>7, <1>8, <1>9, <1>10, <1>11, <1>12, <1>13,
     <1>14, <1>15, <1>16, <1>17, <1>18, <1>19, <1>20, <1>21, <1>22, <1>23, <1>24, <1>25,
     <1>26
     DEF Next, Tick, Respond, Execute

(* The type invariant of the machine. *)
THEOREM TypeCorrect == Spec => []TypeOK
<1>1. Typed => TypeOK
  BY TypedIsTypeOK
<1> QED
  BY TypedInit, TypedStep, <1>1, PTL DEF Spec
-----------------------------------------------------------------------------
(* The prompt protocol.  The invariants that speak of the state, the flag   *)
(* and the place of the poll goroutine are inductive together.              *)

Prompting == NotifiedIffPrompted /\ NothingAnsweredWhileSending /\ TickerExecutes

LEMMA PromptingStep == TypeOK /\ Prompting /\ [Next]_vars => Prompting'
<1> SUFFICES ASSUME TypeOK, Prompting, [Next]_vars PROVE Prompting'
  OBVIOUS
<1>0. /\ pc \in [Threads -> Labels]
      /\ state \in States
      /\ Ticker \in Threads
      /\ Responders \subseteq Threads
      /\ Ticker \notin Responders
  BY ConstantsAssumption DEF TypeOK, Threads
<1> USE <1>0 DEF Prompting, NotifiedIffPrompted, NothingAnsweredWhileSending,
       TickerExecutes, Sending, Carrying, Running, Idle, WarningSent, Awaiting, Executing,
       Aborted, TimedOut, States
<1>1. CASE ReadingChanges
  BY <1>1 DEF ReadingChanges, machineVars, threadVars
<1>2. CASE TimePasses
  BY <1>2 DEF TimePasses, machineVars, threadVars
<1>3. CASE PutConfig
  BY <1>3 DEF PutConfig, machineVars, threadVars
<1>4. CASE PutAutoDrainConfig
  BY <1>4 DEF PutAutoDrainConfig, machineVars, threadVars
<1>5. CASE Reset
  BY <1>5 DEF Reset, ResetToIdle, ForgetPrompt, machineVars, threadVars
<1>6. CASE Poll
  BY <1>6 DEF Poll, Goto, machineVars, threadVars
<1>7. CASE TickConfig
  BY <1>7 DEF TickConfig, Goto, machineVars, threadVars
<1>8. CASE TickDisabled
  BY <1>8 DEF TickDisabled, ResetToIdle, TickLocked, Return, ForgetPrompt, machineVars,
         threadVars
<1>9. CASE TickQuiet
  BY <1>9 DEF TickQuiet, ResetToIdle, TickLocked, TickState, Return, ForgetPrompt, Rearms,
         machineVars, threadVars
<1>10. CASE TickWarn
  BY <1>10 DEF TickWarn, TickLocked, TickState, Goto, ForgetPrompt, Rearms, machineVars,
         threadVars
<1>11. CASE TickWithdraw
  BY <1>11 DEF TickWithdraw, ResetToIdle, TickLocked, Return, ForgetPrompt, machineVars,
         threadVars
<1>12. CASE TickTimeout
  BY <1>12 DEF TickTimeout, TickLocked, Goto, machineVars, threadVars
<1>13. CASE SendWarning
  BY <1>13 DEF SendWarning, Goto, machineVars, threadVars
<1>14. CASE WarningAccepted
  BY <1>14 DEF WarningAccepted, Return, machineVars, threadVars
<1>15. CASE WarningRefused
  BY <1>15 DEF WarningRefused, ResetToIdle, Return, ForgetPrompt, machineVars, threadVars
<1>16. ASSUME NEW t \in Responders, RespondConfig(t) PROVE Prompting'
  BY <1>16 DEF RespondConfig, Goto, machineVars, threadVars
<1>17. ASSUME NEW t \in Responders, RespondNothingPending(t) PROVE Prompting'
  BY <1>17 DEF RespondNothingPending, ResetToIdle, Return, Pending, ForgetPrompt,
         machineVars, threadVars
<1>18. ASSUME NEW t \in Responders, RespondNo(t) PROVE Prompting'
  BY <1>18 DEF RespondNo, Return, Pending, machineVars, threadVars
<1>19. ASSUME NEW t \in Responders, RespondYes(t) PROVE Prompting'
  BY <1>19 DEF RespondYes, Goto, Pending, machineVars, threadVars
<1>20. ASSUME NEW t \in Threads, ExecuteRefused(t) PROVE Prompting'
  BY <1>20 DEF ExecuteRefused, Return, machineVars, threadVars
<1>21. ASSUME NEW t \in Threads, ExecuteBlocked(t) PROVE Prompting'
  BY <1>21 DEF ExecuteBlocked, Return, machineVars, threadVars
<1>22. ASSUME NEW t \in Threads, ExecuteStart(t) PROVE Prompting'
  BY <1>22 DEF ExecuteStart, Goto, machineVars, threadVars
<1>23. ASSUME NEW t \in Threads, RunCommand(t) PROVE Prompting'
  BY <1>23 DEF RunCommand, Goto, After, Commands, machineVars, threadVars
<1>24. ASSUME NEW t \in Threads, CommandFails(t) PROVE Prompting'
  BY <1>24 DEF CommandFails, Goto, Commands, machineVars, threadVars
<1>25. ASSUME NEW t \in Threads, Finish(t) PROVE Prompting'
  BY <1>25 DEF Finish, Return, machineVars, threadVars
<1>26. CASE UNCHANGED vars
  BY <1>26 DEF vars, machineVars, threadVars
<1> QED
  BY <1>1, <1>2, <1>3, <1>4, <1>5, <1>6, <1>7, <1>8, <1>9, <1>10, <1>11, <1>12, <1>13,
     <1>14, <1>15, <1>16, <1>17, <1>18, <1>19, <1>20, <1>21, <1>22, <1>23, <1>24, <1>25,
     <1>26
     DEF Next, Tick, Respond, Execute

-----------------------------------------------------------------------------
(* The answers, and the threads that carry them. *)

Answers == OpenIsUnanswered /\ OpenWasAccepted /\ AbortedIsNo /\ History

(* The outcome of Send becomes the receipt of a prompt without an answer. *)
LEMMA SendWarningStep ==
  TypeOK /\ Prompting /\ Answers /\ Carriers /\ SendWarning => Answers' /\ Carriers'
<1> SUFFICES ASSUME TypeOK, Prompting, Answers, Carriers, SendWarning
             PROVE  Answers' /\ Carriers'
  OBVIOUS
<1>0. /\ pc \in [Threads -> Labels]
      /\ state \in States
      /\ Ticker \in Threads
      /\ Responders \subseteq Threads
      /\ Ticker \notin Responders
      /\ answer \in [Prompts -> {"none", "yes", "no", "timeout", "twice"}]
      /\ receipt \in [Prompts -> {"none", "delivered", "dry_run", "panicked", "failed"}]
      /\ promptOf \in [Threads -> 0 .. MaxPrompts]
      /\ runs \in [Prompts -> Nat]
      /\ prompt \in 0 .. MaxPrompts
      /\ MaxPrompts \in Nat
  BY ConstantsAssumption DEF TypeOK, Threads
<1>1. PICK outcome \in SendOutcomes \cup {"failed", "dry_run"} :
          /\ receipt' = [receipt EXCEPT ![prompt] = outcome]
          /\ Goto(Ticker, IF CountsAsSent(outcome) THEN "accepted" ELSE "refused")
  BY DEF SendWarning
<1>2. outcome # "none"
  BY ConstantsAssumption
<1>3. pc[Ticker] = "send" /\ UNCHANGED <<machineVars, promptOf, prompt, answer, runs>>
  BY DEF SendWarning
<1>4. Answers'
  BY <1>0, <1>1, <1>2, <1>3 DEF Goto, CountsAsSent, Answers, OpenIsUnanswered,
         OpenWasAccepted, AbortedIsNo, History, Settled, Sending, Carrying, Running,
         machineVars, Idle, WarningSent, Awaiting, Executing, Aborted, TimedOut, States,
         Prompts, Prompting, NothingAnsweredWhileSending
<1>5. Carriers'
  BY <1>0, <1>1, <1>3 DEF Goto, Carriers, Carrying, Running
<1> QED
  BY <1>4, <1>5

LEMMA AnswersStep ==
  TypeOK /\ Prompting /\ Answers /\ Carriers /\ [Next]_vars => Answers' /\ Carriers'
<1> SUFFICES ASSUME TypeOK, Prompting, Answers, Carriers, [Next]_vars
             PROVE  Answers' /\ Carriers'
  OBVIOUS
<1>0. /\ pc \in [Threads -> Labels]
      /\ state \in States
      /\ Ticker \in Threads
      /\ Responders \subseteq Threads
      /\ Ticker \notin Responders
      /\ answer \in [Prompts -> {"none", "yes", "no", "timeout", "twice"}]
      /\ receipt \in [Prompts -> {"none", "delivered", "dry_run", "panicked", "failed"}]
      /\ promptOf \in [Threads -> 0 .. MaxPrompts]
      /\ runs \in [Prompts -> Nat]
      /\ prompt \in 0 .. MaxPrompts
      /\ MaxPrompts \in Nat
  BY ConstantsAssumption DEF TypeOK, Threads
<1> USE <1>0 DEF Prompting, NotifiedIffPrompted, NothingAnsweredWhileSending,
       TickerExecutes, Answers, OpenIsUnanswered, OpenWasAccepted, AbortedIsNo, History,
       Carriers, Settled, Sending, Carrying, Running, Idle, WarningSent, Awaiting,
       Executing, Aborted, TimedOut, States, Prompts
<1>1. CASE ReadingChanges
  BY <1>1 DEF ReadingChanges, machineVars, threadVars, historyVars
<1>2. CASE TimePasses
  BY <1>2 DEF TimePasses, machineVars, threadVars, historyVars
<1>3. CASE PutConfig
  BY <1>3 DEF PutConfig, machineVars, threadVars, historyVars
<1>4. CASE PutAutoDrainConfig
  BY <1>4 DEF PutAutoDrainConfig, machineVars, threadVars, historyVars
<1>5. CASE Reset
  BY <1>5 DEF Reset, ResetToIdle, ForgetPrompt, machineVars, threadVars, historyVars
<1>6. CASE Poll
  BY <1>6 DEF Poll, Goto, machineVars, threadVars, historyVars
<1>7. CASE TickConfig
  BY <1>7 DEF TickConfig, Goto, machineVars, threadVars, historyVars
<1>8. CASE TickDisabled
  BY <1>8 DEF TickDisabled, ResetToIdle, TickLocked, Return, ForgetPrompt, machineVars,
         threadVars, historyVars
<1>9. CASE TickQuiet
  BY <1>9 DEF TickQuiet, ResetToIdle, TickLocked, Rearms, TickState, Return, ForgetPrompt,
         machineVars, threadVars, historyVars
<1>10. CASE TickWarn
  BY <1>10 DEF TickWarn, TickLocked, Rearms, TickState, Goto, ForgetPrompt, machineVars,
         threadVars, historyVars
<1>11. CASE TickWithdraw
  BY <1>11 DEF TickWithdraw, ResetToIdle, TickLocked, Return, ForgetPrompt, machineVars,
         threadVars, historyVars
<1>12. CASE TickTimeout
  BY <1>12 DEF TickTimeout, TickLocked, Goto, Accept, machineVars, threadVars, historyVars
<1>13. CASE SendWarning
  BY <1>13, SendWarningStep
<1>14. CASE WarningAccepted
  BY <1>14 DEF WarningAccepted, Return, machineVars, threadVars, historyVars
<1>15. CASE WarningRefused
  BY <1>15 DEF WarningRefused, ResetToIdle, Return, ForgetPrompt, machineVars, threadVars,
         historyVars
<1>16. ASSUME NEW t \in Responders, RespondConfig(t) PROVE Answers' /\ Carriers'
  BY <1>16 DEF RespondConfig, Goto, machineVars, threadVars, historyVars
<1>17. ASSUME NEW t \in Responders, RespondNothingPending(t) PROVE Answers' /\ Carriers'
  BY <1>17 DEF RespondNothingPending, ResetToIdle, Return, Pending, ForgetPrompt,
         machineVars, threadVars, historyVars
<1>18. ASSUME NEW t \in Responders, RespondNo(t) PROVE Answers' /\ Carriers'
  BY <1>18 DEF RespondNo, Return, Pending, machineVars, threadVars, historyVars
<1>19. ASSUME NEW t \in Responders, RespondYes(t) PROVE Answers' /\ Carriers'
  BY <1>19 DEF RespondYes, Goto, Accept, Pending, machineVars, threadVars, historyVars
<1>20. ASSUME NEW t \in Threads, ExecuteRefused(t) PROVE Answers' /\ Carriers'
  BY <1>20 DEF ExecuteRefused, Return, machineVars, threadVars, historyVars
<1>21. ASSUME NEW t \in Threads, ExecuteBlocked(t) PROVE Answers' /\ Carriers'
  BY <1>21 DEF ExecuteBlocked, Return, machineVars, threadVars, historyVars
<1>22. ASSUME NEW t \in Threads, ExecuteStart(t) PROVE Answers' /\ Carriers'
  BY <1>22 DEF ExecuteStart, Goto, machineVars, threadVars, historyVars
<1>23. ASSUME NEW t \in Threads, RunCommand(t) PROVE Answers' /\ Carriers'
  BY <1>23 DEF RunCommand, Goto, After, Commands, machineVars, threadVars, historyVars
<1>24. ASSUME NEW t \in Threads, CommandFails(t) PROVE Answers' /\ Carriers'
  BY <1>24 DEF CommandFails, Goto, Commands, machineVars, threadVars, historyVars
<1>25. ASSUME NEW t \in Threads, Finish(t) PROVE Answers' /\ Carriers'
  BY <1>25 DEF Finish, Return, machineVars, threadVars, historyVars
<1>26. CASE UNCHANGED vars
  BY <1>26 DEF vars, machineVars, threadVars, historyVars
<1> QED
  BY <1>1, <1>2, <1>3, <1>4, <1>5, <1>6, <1>7, <1>8, <1>9, <1>10, <1>11, <1>12, <1>13,
     <1>14, <1>15, <1>16, <1>17, <1>18, <1>19, <1>20, <1>21, <1>22, <1>23, <1>24, <1>25,
     <1>26
     DEF Next, Tick, Respond, Execute

-----------------------------------------------------------------------------
(* The commands of a sequence. *)

CommandsOK == CommandsInOrder /\ PowerOffLast

LEMMA CommandsStep == TypeOK /\ CommandsOK /\ [Next]_vars => CommandsOK'
<1> SUFFICES ASSUME TypeOK, CommandsOK, [Next]_vars PROVE CommandsOK'
  OBVIOUS
<1>0. /\ pc \in [Threads -> Labels]
      /\ Ticker \in Threads
      /\ Responders \subseteq Threads
      /\ promptOf \in [Threads -> 0 .. MaxPrompts]
      /\ executor \in [Threads -> {"none", "recording", "real"}]
  BY DEF TypeOK, Threads
<1> USE <1>0 DEF CommandsOK, CommandsInOrder, PowerOffLast
<1>1. CASE ReadingChanges
  BY <1>1 DEF ReadingChanges, machineVars, threadVars, historyVars
<1>2. CASE TimePasses
  BY <1>2 DEF TimePasses, machineVars, threadVars, historyVars
<1>3. CASE PutConfig
  BY <1>3 DEF PutConfig, machineVars, threadVars, historyVars
<1>4. CASE PutAutoDrainConfig
  BY <1>4 DEF PutAutoDrainConfig, machineVars, threadVars, historyVars
<1>5. CASE Reset
  BY <1>5 DEF Reset, machineVars, threadVars, historyVars
<1>6. CASE Poll
  BY <1>6 DEF Poll, Goto, machineVars, threadVars, historyVars
<1>7. CASE TickConfig
  BY <1>7 DEF TickConfig, Goto, machineVars, threadVars, historyVars
<1>8. CASE TickDisabled
  BY <1>8 DEF TickDisabled, Return, machineVars, threadVars, historyVars
<1>9. CASE TickQuiet
  BY <1>9 DEF TickQuiet, Return, machineVars, threadVars, historyVars
<1>10. CASE TickWarn
  BY <1>10 DEF TickWarn, Goto, machineVars, threadVars, historyVars
<1>11. CASE TickWithdraw
  BY <1>11 DEF TickWithdraw, Return, machineVars, threadVars, historyVars
<1>12. CASE TickTimeout
  BY <1>12 DEF TickTimeout, Goto, Accept, machineVars, threadVars, historyVars
<1>13. CASE SendWarning
  BY <1>13 DEF SendWarning, Goto, machineVars, threadVars, historyVars
<1>14. CASE WarningAccepted
  BY <1>14 DEF WarningAccepted, Return, machineVars, threadVars, historyVars
<1>15. CASE WarningRefused
  BY <1>15 DEF WarningRefused, Return, machineVars, threadVars, historyVars
<1>16. ASSUME NEW t \in Responders, RespondConfig(t) PROVE CommandsOK'
  BY <1>16 DEF RespondConfig, Goto, machineVars, threadVars, historyVars
<1>17. ASSUME NEW t \in Responders, RespondNothingPending(t) PROVE CommandsOK'
  BY <1>17 DEF RespondNothingPending, Return, machineVars, threadVars, historyVars
<1>18. ASSUME NEW t \in Responders, RespondNo(t) PROVE CommandsOK'
  BY <1>18 DEF RespondNo, Return, machineVars, threadVars, historyVars
<1>19. ASSUME NEW t \in Responders, RespondYes(t) PROVE CommandsOK'
  BY <1>19 DEF RespondYes, Goto, Accept, machineVars, threadVars, historyVars
<1>20. ASSUME NEW t \in Threads, ExecuteRefused(t) PROVE CommandsOK'
  BY <1>20 DEF ExecuteRefused, Return, machineVars, threadVars, historyVars
<1>21. ASSUME NEW t \in Threads, ExecuteBlocked(t) PROVE CommandsOK'
  BY <1>21 DEF ExecuteBlocked, Return, machineVars, threadVars, historyVars
<1>22. ASSUME NEW t \in Threads, ExecuteStart(t) PROVE CommandsOK'
  BY <1>22 DEF ExecuteStart, Goto, PickExecutor, machineVars, threadVars, historyVars
<1>23. ASSUME NEW t \in Threads, RunCommand(t) PROVE CommandsOK'
  BY <1>23 DEF RunCommand, Goto, After, Commands, machineVars, threadVars, historyVars
<1>24. ASSUME NEW t \in Threads, CommandFails(t) PROVE CommandsOK'
  BY <1>24 DEF CommandFails, Goto, Commands, machineVars, threadVars, historyVars
<1>25. ASSUME NEW t \in Threads, Finish(t) PROVE CommandsOK'
  BY <1>25 DEF Finish, Return, machineVars, threadVars, historyVars
<1>26. CASE UNCHANGED vars
  BY <1>26 DEF vars, machineVars, threadVars, historyVars
<1> QED
  BY <1>1, <1>2, <1>3, <1>4, <1>5, <1>6, <1>7, <1>8, <1>9, <1>10, <1>11, <1>12, <1>13,
     <1>14, <1>15, <1>16, <1>17, <1>18, <1>19, <1>20, <1>21, <1>22, <1>23, <1>24, <1>25,
     <1>26
     DEF Next, Tick, Respond, Execute

(* No two threads carry the same prompt, so the trace of one sequence is    *)
(* not taken for that of another.                                           *)
LEMMA OnHostStep == TypeOK /\ Carriers /\ OnHost /\ [Next]_vars => OnHost'
<1> SUFFICES ASSUME TypeOK, Carriers, OnHost, [Next]_vars PROVE OnHost'
  OBVIOUS
<1>0. /\ pc \in [Threads -> Labels]
      /\ Ticker \in Threads
      /\ Responders \subseteq Threads
      /\ cfgOf \in [Threads -> Configs \cup {NoConfig}]
      /\ promptOf \in [Threads -> 0 .. MaxPrompts]
      /\ executor \in [Threads -> {"none", "recording", "real"}]
      /\ runs \in [Prompts -> Nat]
  BY DEF TypeOK, Threads
<1> USE <1>0 DEF OnHost, Carriers, Carrying, Running, ManualActionsReady
<1>1. CASE ReadingChanges
  BY <1>1 DEF ReadingChanges, machineVars, threadVars, historyVars
<1>2. CASE TimePasses
  BY <1>2 DEF TimePasses, machineVars, threadVars, historyVars
<1>3. CASE PutConfig
  BY <1>3 DEF PutConfig, machineVars, threadVars, historyVars
<1>4. CASE PutAutoDrainConfig
  BY <1>4 DEF PutAutoDrainConfig, machineVars, threadVars, historyVars
<1>5. CASE Reset
  BY <1>5 DEF Reset, machineVars, threadVars, historyVars
<1>6. CASE Poll
  BY <1>6 DEF Poll, Goto, machineVars, threadVars, historyVars
<1>7. CASE TickConfig
  BY <1>7 DEF TickConfig, Goto, machineVars, threadVars, historyVars
<1>8. CASE TickDisabled
  BY <1>8 DEF TickDisabled, Return, machineVars, threadVars, historyVars
<1>9. CASE TickQuiet
  BY <1>9 DEF TickQuiet, Return, machineVars, threadVars, historyVars
<1>10. CASE TickWarn
  BY <1>10 DEF TickWarn, TickLocked, Goto, machineVars, threadVars, historyVars
<1>11. CASE TickWithdraw
  BY <1>11 DEF TickWithdraw, Return, machineVars, threadVars, historyVars
<1>12. CASE TickTimeout
  BY <1>12 DEF TickTimeout, TickLocked, Goto, Accept, machineVars, threadVars, historyVars
<1>13. CASE SendWarning
  BY <1>13 DEF SendWarning, Goto, machineVars, threadVars, historyVars
<1>14. CASE WarningAccepted
  BY <1>14 DEF WarningAccepted, Return, machineVars, threadVars, historyVars
<1>15. CASE WarningRefused
  BY <1>15 DEF WarningRefused, Return, machineVars, threadVars, historyVars
<1>16. ASSUME NEW t \in Responders, RespondConfig(t) PROVE OnHost'
  BY <1>16 DEF RespondConfig, Goto, machineVars, threadVars, historyVars
<1>17. ASSUME NEW t \in Responders, RespondNothingPending(t) PROVE OnHost'
  BY <1>17 DEF RespondNothingPending, Return, machineVars, threadVars, historyVars
<1>18. ASSUME NEW t \in Responders, RespondNo(t) PROVE OnHost'
  BY <1>18 DEF RespondNo, Return, machineVars, threadVars, historyVars
<1>19. ASSUME NEW t \in Responders, RespondYes(t) PROVE OnHost'
  BY <1>19 DEF RespondYes, Goto, Accept, machineVars, threadVars, historyVars
<1>20. ASSUME NEW t \in Threads, ExecuteRefused(t) PROVE OnHost'
  BY <1>20 DEF ExecuteRefused, Return, machineVars, threadVars, historyVars
<1>21. ASSUME NEW t \in Threads, ExecuteBlocked(t) PROVE OnHost'
  BY <1>21 DEF ExecuteBlocked, Return, machineVars, threadVars, historyVars
<1>22. ASSUME NEW t \in Threads, ExecuteStart(t) PROVE OnHost'
  BY <1>22 DEF ExecuteStart, Goto, PickExecutor, machineVars, threadVars, historyVars
<1>23. ASSUME NEW t \in Threads, RunCommand(t) PROVE OnHost'
  BY <1>23 DEF RunCommand, Goto, After, Commands, machineVars, threadVars, historyVars
<1>24. ASSUME NEW t \in Threads, CommandFails(t) PROVE OnHost'
  BY <1>24 DEF CommandFails, Goto, Commands, machineVars, threadVars, historyVars
<1>25. ASSUME NEW t \in Threads, Finish(t) PROVE OnHost'
  BY <1>25 DEF Finish, Return, machineVars, threadVars, historyVars
<1>26. CASE UNCHANGED vars
  BY <1>26 DEF vars, machineVars, threadVars, historyVars
<1> QED
  BY <1>1, <1>2, <1>3, <1>4, <1>5, <1>6, <1>7, <1>8, <1>9, <1>10, <1>11, <1>12, <1>13,
     <1>14, <1>15, <1>16, <1>17, <1>18, <1>19, <1>20, <1>21, <1>22, <1>23, <1>24, <1>25,
     <1>26
     DEF Next, Tick, Respond, Execute

-----------------------------------------------------------------------------
(* The inductive invariant and the theorems it gives. *)

IInv == Typed /\ Prompting /\ Answers /\ Carriers /\ CommandsOK /\ OnHost

LEMMA IInvInit == Init => IInv
<1> SUFFICES ASSUME Init PROVE IInv
  OBVIOUS
<1>1. Ticker \in Threads
  BY DEF Threads
<1>2. Prompting
  BY <1>1 DEF Init, Prompting, NotifiedIffPrompted, NothingAnsweredWhileSending,
         TickerExecutes, Sending, Carrying, Running, Idle, WarningSent, Awaiting, Executing,
         Aborted, TimedOut
<1>3. Answers
  BY <1>1 DEF Init, Answers, OpenIsUnanswered, OpenWasAccepted, AbortedIsNo, History,
         Sending, Idle, Awaiting, Aborted
<1>4. Carriers /\ CommandsOK /\ OnHost
  BY DEF Init, Carriers, Carrying, Running, CommandsOK, CommandsInOrder, PowerOffLast, OnHost
<1> QED
  BY TypedInit, <1>2, <1>3, <1>4 DEF IInv

LEMMA IInvStep == IInv /\ [Next]_vars => IInv'
BY TypedStep, TypedIsTypeOK, PromptingStep, AnswersStep, CommandsStep, OnHostStep DEF IInv

LEMMA IInvHolds == Spec => []IInv
BY IInvInit, IInvStep, PTL DEF Spec

(* YES, NO and the timeout of Respond and Tick exclude each other, and the  *)
(* sequence of execute starts at most once for a prompt.                    *)
THEOREM AnsweredOnce == Spec => []ExactlyOnce
<1>1. IInv => ExactlyOnce
  BY DEF IInv, Answers, History, ExactlyOnce
<1> QED
  BY IInvHolds, <1>1, PTL

(* A notifier that does not panic, and settings that do not rehearse it:    *)
(* what sendWarning returns nil for has then been delivered.                *)
NotifierIsPlain ==
  /\ SendOutcomes \subseteq {"delivered", "failed"}
  /\ \A c \in Configs : ~c.notifyDryRun

PlainReceipts == \A p \in Prompts : receipt[p] \in Settled \cup {"delivered"}

LEMMA PlainReceiptsStep ==
  ASSUME NotifierIsPlain, TypeOK, PlainReceipts, [Next]_vars
  PROVE  PlainReceipts'
<1>1. receipt \in [Prompts -> {"none", "delivered", "dry_run", "panicked", "failed"}]
  BY DEF TypeOK
<1>2. CASE SendWarning
  <2>1. PICK outcome \in {"delivered", "failed"} :
            receipt' = [receipt EXCEPT ![prompt] = outcome]
    BY <1>2 DEF SendWarning, NotifierIsPlain, TypeOK
  <2> QED
    BY <1>1, <2>1 DEF PlainReceipts, Settled
<1>3. CASE UNCHANGED receipt
  BY <1>3 DEF PlainReceipts
<1> QED
  BY <1>2, <1>3 DEF Next, Tick, Respond, Execute, vars, historyVars, ReadingChanges,
         TimePasses, PutConfig, PutAutoDrainConfig, Reset, Poll, TickConfig, TickDisabled,
         TickQuiet, TickWarn, TickWithdraw, TickTimeout, WarningAccepted, WarningRefused,
         RespondConfig, RespondNothingPending, RespondNo, RespondYes, ExecuteRefused,
         ExecuteBlocked, ExecuteStart, RunCommand, CommandFails, Finish

(* The sequence of execute needs a YES or a timeout, and a warning that was *)
(* delivered, unless Send returned nil for a panic or for a dry run.        *)
THEOREM ConsentBeforeRun == NotifierIsPlain => (Spec => []RunNeedsConsent)
<1> SUFFICES ASSUME NotifierIsPlain PROVE Spec => []RunNeedsConsent
  OBVIOUS
<1>1. Init => PlainReceipts
  BY DEF Init, PlainReceipts, Settled
<1>2. IInv => TypeOK
  BY TypedIsTypeOK DEF IInv
<1>3. TypeOK /\ PlainReceipts /\ [Next]_vars => PlainReceipts'
  BY PlainReceiptsStep
<1>4. IInv /\ PlainReceipts => RunNeedsConsent
  <2> SUFFICES ASSUME IInv, PlainReceipts, NEW p \in Prompts, runs[p] > 0
               PROVE  answer[p] \in {"yes", "timeout"} /\ receipt[p] = "delivered"
    BY DEF RunNeedsConsent
  <2>1. answer[p] \in {"yes", "timeout"} /\ receipt[p] \notin Settled
    BY DEF IInv, Answers, History
  <2> QED
    BY <2>1 DEF PlainReceipts
<1> QED
  BY IInvHolds, <1>1, <1>2, <1>3, <1>4, PTL DEF Spec

(* The notified flag that execute tests agrees with the state.              *)
THEOREM FlagAgrees == Spec => []NotifiedIffPrompted
<1>1. IInv => NotifiedIffPrompted
  BY DEF IInv, Prompting
<1> QED
  BY IInvHolds, <1>1, PTL

(* Tick overwrites no answer when it comes back from sending the warning.   *)
THEOREM SendingIsUnanswered == Spec => []NothingAnsweredWhileSending
<1>1. IInv => NothingAnsweredWhileSending
  BY DEF IInv, Prompting
<1> QED
  BY IInvHolds, <1>1, PTL

(* drainSyncPowerOff cuts the power last, whatever fails or overlaps.       *)
THEOREM PowerOffComesLast == Spec => []PowerOffLast
<1>1. IInv => PowerOffLast
  BY DEF IInv, CommandsOK
<1> QED
  BY IInvHolds, <1>1, PTL

-----------------------------------------------------------------------------
(* Action properties.  Each is a fact about one step from the invariant.    *)

(* A tick that rearms the machine does not warn: what has recovered is not  *)
(* low.                                                                     *)
LEMMA RearmNeverWarns ==
  ASSUME Typed, TickWarn
  PROVE  state = Idle
<1>1. cfgOf[Ticker] \in ConfigType /\ sampleOf[Ticker] \in Readings \cup {NoReading}
  BY ConstantsAssumption DEF Typed, ThreadsTyped, HasConfig, TickWarn, TickLocked, Threads
<1>2. sampleOf[Ticker].percent \in Int
  BY <1>1, ConstantsAssumption DEF NoReading, NoPercent, ReadingType
<1>3. cfgOf[Ticker].threshold \in Nat
  BY <1>1 DEF ConfigType
<1> QED
  BY <1>2, <1>3 DEF TickWarn, TickState, Rearms, Recovered, MayStart, RecoveryMargin

(* One step of HostRunIsReported. *)
HostRunNow ==
  \A t \in Threads :
    pc[t] = "done" /\ pc'[t] = "idle" /\ <<promptOf[t], "poweroff">> \in host
      => commandsExecuted'

LEMMA HostRunStep == IInv /\ [Next]_vars => HostRunNow
<1> SUFFICES ASSUME IInv, [Next]_vars, NEW t \in Threads, pc[t] = "done", pc'[t] = "idle",
                    <<promptOf[t], "poweroff">> \in host
             PROVE  commandsExecuted'
  BY DEF HostRunNow
<1>0. pc \in [Threads -> Labels] /\ Ticker \in Threads /\ Responders \subseteq Threads
  BY DEF IInv, Typed, ThreadsTyped, Threads
<1>1. \A u \in Threads : \A label : Goto(u, label) => u = t /\ label = "idle"
  BY <1>0 DEF Goto
<1>2. \A u \in Threads : Return(u) => u = t
  BY <1>0 DEF Return
<1>3. Finish(t)
  BY <1>0, <1>1, <1>2
     DEF Next, Tick, Respond, Execute, vars, threadVars, ReadingChanges, TimePasses,
         PutConfig, PutAutoDrainConfig, Reset, Poll, TickConfig, TickLocked, TickDisabled,
         TickQuiet, TickWarn, TickWithdraw, TickTimeout, SendWarning, WarningAccepted,
         WarningRefused, RespondConfig, RespondNothingPending, RespondNo, RespondYes,
         ExecuteRefused, ExecuteBlocked, ExecuteStart, RunCommand, CommandFails, Finish,
         Commands
<1>4. ManualActionsReady(cfgOf[t])
  BY DEF IInv, OnHost, Running
<1> QED
  BY <1>3, <1>4 DEF Finish

(* The actions that touch the state or the deadline of the machine. *)
LEMMA MachineMoves ==
  ASSUME [Next]_vars
  PROVE  \/ UNCHANGED <<state, deadline>>
         \/ Reset \/ TickDisabled \/ TickQuiet \/ TickWarn \/ TickWithdraw \/ TickTimeout
         \/ WarningAccepted \/ WarningRefused
         \/ \E t \in Responders : RespondNothingPending(t) \/ RespondNo(t) \/ RespondYes(t)
         \/ \E t \in Threads : ExecuteBlocked(t) \/ ExecuteStart(t)
BY DEF Next, Tick, Respond, Execute, vars, machineVars, ReadingChanges, TimePasses,
       PutConfig, PutAutoDrainConfig, Poll, TickConfig, SendWarning, RespondConfig,
       ExecuteRefused, RunCommand, CommandFails, Finish

(* One step of NoStands. *)
NoStandsNow ==
  state = Aborted /\ state' \notin {Aborted, Idle}
    => \E t \in Responders : pc[t] = "execute" /\ promptOf[t] # prompt

LEMMA NoStandsStep == IInv /\ [Next]_vars => NoStandsNow
<1> SUFFICES ASSUME IInv, [Next]_vars, state = Aborted, state' \notin {Aborted, Idle}
             PROVE  \E t \in Responders : pc[t] = "execute" /\ promptOf[t] # prompt
  BY DEF NoStandsNow
<1> USE DEF Idle, WarningSent, Awaiting, Executing, Aborted, TimedOut
<1>1. PICK t \in Threads : ExecuteBlocked(t) \/ ExecuteStart(t)
  <2>1. ~(Reset \/ TickDisabled \/ TickWithdraw \/ WarningRefused)
    BY DEF Reset, TickDisabled, TickWithdraw, WarningRefused, ResetToIdle
  <2>2. ~TickQuiet
    BY DEF TickQuiet, ResetToIdle
  <2>3. ~TickWarn
    BY RearmNeverWarns DEF IInv
  <2>4. ~TickTimeout
    BY DEF TickTimeout
  <2>5. ~WarningAccepted
    BY DEF WarningAccepted, IInv, Prompting, NothingAnsweredWhileSending, Sending
  <2>6. \A t \in Responders : ~(RespondNothingPending(t) \/ RespondNo(t) \/ RespondYes(t))
    BY DEF RespondNothingPending, RespondNo, RespondYes, Pending
  <2> QED
    BY <2>1, <2>2, <2>3, <2>4, <2>5, <2>6, MachineMoves
<1>2. pc[t] = "execute"
  BY <1>1 DEF ExecuteBlocked, ExecuteStart
<1>3. t # Ticker
  BY <1>2 DEF IInv, Prompting, TickerExecutes, Carrying
<1>4. promptOf[t] # prompt
  BY <1>2 DEF IInv, Answers, AbortedIsNo, Carriers, Carrying
<1> QED
  BY <1>2, <1>3, <1>4 DEF Threads

(* A poll is stamped with a time that has come. *)
NeverAhead == sampledAt <= clock

LEMMA NeverAheadStep == Typed /\ NeverAhead /\ [Next]_vars => NeverAhead'
<1> SUFFICES ASSUME Typed, NeverAhead, [Next]_vars PROVE NeverAhead'
  OBVIOUS
<1>1. clock \in Nat /\ sampledAt \in Nat
  BY DEF Typed, WorldTyped, ThreadsTyped
<1>2. CASE UNCHANGED <<clock, sampledAt>>
  BY <1>2 DEF NeverAhead
<1>3. CASE TimePasses
  BY <1>1, <1>3 DEF TimePasses, NeverAhead, threadVars
<1>4. CASE Poll
  BY <1>1, <1>4 DEF Poll, NeverAhead, worldVars
<1>5. ASSUME NEW t \in Threads, Return(t), UNCHANGED clock PROVE NeverAhead'
  BY <1>1, <1>5 DEF Return, NeverAhead
<1> QED
  BY <1>2, <1>3, <1>4, <1>5 DEF Next, Tick, Respond, Execute, vars, worldVars, threadVars,
         Threads, ReadingChanges, PutConfig, PutAutoDrainConfig, Reset, TickLocked,
         TickConfig, TickDisabled, TickQuiet, TickWarn, TickWithdraw, TickTimeout,
         SendWarning, WarningAccepted, WarningRefused, RespondConfig, RespondNothingPending,
         RespondNo, RespondYes, ExecuteRefused, ExecuteBlocked, ExecuteStart, RunCommand,
         CommandFails, Finish

(* One step of WindowHonoured. *)
WindowNow ==
  state = Awaiting => /\ state' = Awaiting => deadline' = deadline
                      /\ state' = TimedOut => clock >= deadline
                         
LEMMA WindowStep == IInv /\ NeverAhead /\ [Next]_vars => WindowNow
<1> SUFFICES ASSUME IInv, NeverAhead, [Next]_vars,
                    state = Awaiting, state' \in {Awaiting, TimedOut}
             PROVE  /\ state' = Awaiting => deadline' = deadline
                    /\ state' = TimedOut => clock >= deadline
  BY DEF WindowNow
<1> USE DEF Idle, WarningSent, Awaiting, Executing, Aborted, TimedOut
<1>1. clock \in Nat /\ sampledAt \in Nat /\ deadline \in Nat
  BY DEF IInv, Typed, WorldTyped, ThreadsTyped, MachineTyped
<1>2. CASE UNCHANGED <<state, deadline>> 
  BY <1>2
<1>3. CASE TickQuiet
  BY <1>3 DEF TickQuiet, Rearms, TickState
<1>4. CASE TickTimeout
  BY <1>1, <1>4 DEF TickTimeout, Expired, NeverAhead
<1>5. ~(Reset \/ TickDisabled \/ TickWithdraw \/ WarningRefused)
  BY DEF Reset, TickDisabled, TickWithdraw, WarningRefused, ResetToIdle
<1>6. ~TickWarn
  BY DEF TickWarn
<1>7. ~WarningAccepted
  BY DEF WarningAccepted, IInv, Prompting, NothingAnsweredWhileSending, Sending
<1>8. ASSUME NEW t \in Responders
      PROVE  ~(RespondNothingPending(t) \/ RespondNo(t) \/ RespondYes(t))
  BY DEF RespondNothingPending, RespondNo, RespondYes, ResetToIdle
<1>9. ASSUME NEW t \in Threads PROVE ~(ExecuteBlocked(t) \/ ExecuteStart(t))
  <2>1. CASE t = Ticker
    BY <2>1 DEF ExecuteBlocked, ExecuteStart, IInv, Prompting, TickerExecutes, Carrying
  <2>2. CASE t # Ticker
    BY <2>2 DEF ExecuteBlocked, ExecuteStart
  <2> QED
    BY <2>1, <2>2
<1> QED
  BY <1>2, <1>3, <1>4, <1>5, <1>6, <1>7, <1>8, <1>9, MachineMoves

(* execute never reports a sequence that powered the host off as recorded   *)
(* only.                                                                    *)
THEOREM HostRunsAreReported == Spec => HostRunIsReported
<1>1. IInv /\ [Next]_vars => HostRunNow
  BY HostRunStep
<1> QED
  BY IInvHolds, <1>1, PTL DEF Spec, HostRunIsReported, HostRunNow

(* Only a YES to an earlier prompt gets past a NO that was not rearmed.     *)
THEOREM NoIsFinal == Spec => NoStands
<1>1. IInv /\ [Next]_vars => NoStandsNow
  BY NoStandsStep
<1> QED
  BY IInvHolds, <1>1, PTL DEF Spec, NoStands, NoStandsNow

(* The deadline set by Tick stands until the wait ends, and Tick does not   *)
(* time out before it.                                                      *)
THEOREM WindowIsHonoured == Spec => WindowHonoured
<1>1. Init => NeverAhead
  BY DEF Init, NeverAhead
<1>2. IInv => Typed
  BY DEF IInv
<1>3. IInv /\ NeverAhead /\ [Next]_vars => WindowNow
  BY WindowStep
<1> QED
  BY IInvHolds, NeverAheadStep, <1>1, <1>2, <1>3, PTL DEF Spec, WindowHonoured, WindowNow

-----------------------------------------------------------------------------
(* The refinement of DrainConsent.  A step that keeps the answers, the      *)
(* runs and the place of the current prompt is a stutter; one that ends its *)
(* wait without an answer withdraws it.                                     *)

LEMMA StepStutters ==
  ASSUME UNCHANGED <<answer, runs, prompt>>, Sending' <=> Sending,
         state' = Awaiting <=> state = Awaiting
  PROVE  UNCHANGED Consent!vars
<1>1. \A p \in Prompts : VerdictOn(p)' = VerdictOn(p)
  BY DEF VerdictOn
<1>2. verdictOf' = verdictOf
  BY <1>1 DEF verdictOf
<1>3. drainedOf' = drainedOf
  BY DEF drainedOf
<1> QED
  BY <1>2, <1>3 DEF Consent!vars

(* What a change of one verdict looks like in the abstract. *)
LEMMA BecomesOn ==
  ASSUME NEW p \in Prompts, NEW v, VerdictOn(p)' = v,
         \A q \in Prompts \ {p} : VerdictOn(q)' = VerdictOn(q)
  PROVE  Consent!Becomes(p, v)
BY DEF Consent!Becomes, verdictOf

LEMMA VerdictIs == \A p \in Prompts : verdictOf[p] = VerdictOn(p)
BY DEF verdictOf

LEMMA SameRuns == UNCHANGED runs => UNCHANGED drainedOf
BY DEF drainedOf

LEMMA SamePrompts == Consent!Prompts = Prompts
BY DEF Consent!Prompts, Prompts

(* The state leaves AWAITING without an answer, or was not there. *)
LEMMA StepCloses ==
  ASSUME Typed, Prompting, Answers, UNCHANGED <<answer, runs, prompt>>,
         Sending' <=> Sending, state' # Awaiting
  PROVE  [Consent!Next]_(Consent!vars)
<1>1. CASE state # Awaiting
  BY <1>1, StepStutters
<1>2. CASE state = Awaiting
  <2>1. prompt \in Prompts /\ answer[prompt] = "none" /\ ~Sending
    BY <1>2 DEF Answers, OpenIsUnanswered, Prompting, NothingAnsweredWhileSending,
         Idle, WarningSent, Awaiting
  <2>2. VerdictOn(prompt) = "open" /\ VerdictOn(prompt)' = "withdrawn"
    BY <1>2, <2>1 DEF VerdictOn, Prompts
  <2>3. \A q \in Prompts \ {prompt} : VerdictOn(q)' = VerdictOn(q)
    BY DEF VerdictOn
  <2>4. Consent!Withdraw(prompt)
    BY <2>1, <2>2, <2>3, BecomesOn, VerdictIs, SameRuns DEF Consent!Withdraw, Consent!Unsettled
  <2> QED
    BY <2>1, <2>4, SamePrompts DEF Consent!Next
<1> QED
  BY <1>1, <1>2

(* The current prompt is answered. *)
LEMMA StepAnswers ==
  ASSUME Typed, Prompting, Answers, NEW t \in Threads, Pending, ~Sending, ~Sending',
         NEW a \in {"yes", "no", "timeout"},
         answer' = [answer EXCEPT ![prompt] = IF @ = "none" THEN a ELSE "twice"],
         state' # Awaiting, UNCHANGED <<runs, prompt>>
  PROVE  [Consent!Next]_(Consent!vars)
<1>1. state = Awaiting
  BY DEF Pending, Prompting, NothingAnsweredWhileSending
<1>2. prompt \in Prompts /\ answer[prompt] = "none"
  BY <1>1 DEF Answers, OpenIsUnanswered
<1>3. answer' = [answer EXCEPT ![prompt] = a] /\ answer'[prompt] = a
  BY <1>2 DEF Typed, HistoryTyped
<1>4. \A q \in Prompts \ {prompt} : VerdictOn(q)' = VerdictOn(q)
  BY <1>3 DEF VerdictOn, Typed, HistoryTyped
<1>5. VerdictOn(prompt) = "open"
  BY <1>1, <1>2 DEF VerdictOn, Prompts
<1>6. CASE a = "no"
  <2>1. VerdictOn(prompt)' = "declined"
    BY <1>3, <1>6 DEF VerdictOn
  <2>2. Consent!Decline(prompt)
    BY <1>2, <1>4, <1>5, <2>1, BecomesOn, VerdictIs, SameRuns DEF Consent!Decline
  <2> QED
    BY <1>2, <2>2, SamePrompts DEF Consent!Next
<1>7. CASE a # "no"
  <2>1. VerdictOn(prompt)' = "granted"
    BY <1>3, <1>7 DEF VerdictOn
  <2>2. Consent!Grant(prompt)
    BY <1>2, <1>4, <1>5, <2>1, BecomesOn, VerdictIs, SameRuns DEF Consent!Grant
  <2> QED
    BY <1>2, <2>2, SamePrompts DEF Consent!Next
<1> QED
  BY <1>6, <1>7

(* A new prompt is asked when the one before has been settled. *)
LEMMA StepAsks ==
  ASSUME IInv, TickWarn
  PROVE  [Consent!Next]_(Consent!vars)
<1>0. /\ pc \in [Threads -> Labels] /\ Ticker \in Threads
      /\ prompt \in 0 .. MaxPrompts /\ MaxPrompts \in Nat
  BY ConstantsAssumption DEF IInv, Typed, ThreadsTyped, HistoryTyped, Threads
<1>1. /\ state = Idle /\ ~Sending /\ Sending'
      /\ prompt < MaxPrompts /\ prompt' = prompt + 1 /\ UNCHANGED <<answer, runs>>
  <2>1. state = Idle
    BY RearmNeverWarns DEF IInv
  <2>2. pc[Ticker] = "tick" /\ pc' = [pc EXCEPT ![Ticker] = "send"]
    BY DEF TickWarn, TickLocked, Goto
  <2> QED
    BY <1>0, <2>1, <2>2 DEF TickWarn, Sending
<1>2. PICK n \in Prompts : n = prompt + 1
  BY <1>0, <1>1 DEF Prompts
<1>3. answer[n] = "none"
  BY <1>0, <1>2 DEF IInv, Answers, History
<1>4. VerdictOn(n) = "unasked" /\ VerdictOn(n)' = "asking"
  BY <1>0, <1>1, <1>2, <1>3 DEF VerdictOn
<1>5. \A q \in Prompts : q < n => VerdictOn(q) \notin {"asking", "open", "unasked"}
  BY <1>0, <1>1, <1>2 DEF VerdictOn, Prompts, Idle, Awaiting
<1>6. \A q \in Prompts \ {n} : VerdictOn(q)' = VerdictOn(q)
  BY <1>0, <1>1, <1>2 DEF VerdictOn, Prompts, Idle, Awaiting
<1>7. Consent!Ask(n)
  BY <1>1, <1>2, <1>4, <1>5, <1>6, BecomesOn, VerdictIs, SameRuns, SamePrompts
     DEF Consent!Ask, Consent!Unsettled
<1> QED
  BY <1>2, <1>7, SamePrompts DEF Consent!Next

(* The warning was accepted or refused, and the wait begins or not. *)
LEMMA StepDelivers ==
  ASSUME IInv, WarningAccepted \/ WarningRefused
  PROVE  [Consent!Next]_(Consent!vars)
<1>0. pc \in [Threads -> Labels] /\ Ticker \in Threads
  BY DEF IInv, Typed, ThreadsTyped, Threads
<1>1. Sending /\ ~Sending' /\ UNCHANGED <<answer, runs, prompt>>
  BY <1>0 DEF WarningAccepted, WarningRefused, Return, Sending, historyVars
<1>2. prompt \in Prompts /\ answer[prompt] = "none"
  BY <1>1 DEF IInv, Answers, OpenIsUnanswered
<1>3. VerdictOn(prompt) = "asking" /\ \A q \in Prompts \ {prompt} : VerdictOn(q)' = VerdictOn(q)
  BY <1>1, <1>2 DEF VerdictOn, Prompts
<1>4. CASE WarningAccepted
  <2>1. VerdictOn(prompt)' = "open"
    BY <1>1, <1>2, <1>4 DEF VerdictOn, Prompts, WarningAccepted
  <2>2. Consent!Deliver(prompt)
    BY <1>1, <1>2, <1>3, <2>1, BecomesOn, VerdictIs, SameRuns DEF Consent!Deliver
  <2> QED
    BY <1>2, <2>2, SamePrompts DEF Consent!Next
<1>5. CASE WarningRefused
  <2>1. VerdictOn(prompt)' = "withdrawn"
    BY <1>1, <1>2, <1>5 DEF VerdictOn, Prompts, WarningRefused, ResetToIdle, Idle, Awaiting
  <2>2. Consent!Withdraw(prompt)
    BY <1>1, <1>2, <1>3, <2>1, BecomesOn, VerdictIs, SameRuns
       DEF Consent!Withdraw, Consent!Unsettled
  <2> QED
    BY <1>2, <2>2, SamePrompts DEF Consent!Next
<1> QED
  BY <1>4, <1>5

(* A sequence starts: its prompt was granted and has had none; a prompt     *)
(* opened since is withdrawn by the state it leaves.                        *)
LEMMA StepDrains ==
  ASSUME IInv, NEW t \in Threads, ExecuteStart(t)
  PROVE  [Consent!Next]_(Consent!vars)
<1> DEFINE p == promptOf[t]
<1>0. /\ pc \in [Threads -> Labels] /\ Ticker \in Threads
      /\ runs \in [Prompts -> Nat]
  BY DEF IInv, Typed, ThreadsTyped, HistoryTyped, Threads
<1>1. p \in Prompts /\ answer[p] \in {"yes", "timeout"} /\ runs[p] = 0
  BY DEF IInv, Carriers, Carrying, ExecuteStart
<1>2. /\ UNCHANGED <<answer, prompt>> /\ runs' = [runs EXCEPT ![p] = @ + 1]
      /\ state' # Awaiting /\ ~Sending /\ ~Sending'
  <2>1. notified /\ pc[t] = "execute" /\ pc' = [pc EXCEPT ![t] = "stop_docker"]
    BY DEF ExecuteStart, Goto
  <2>2. ~Sending
    BY <2>1 DEF IInv, Prompting, NotifiedIffPrompted, NothingAnsweredWhileSending,
         Idle, WarningSent, Awaiting, Executing, Aborted, TimedOut
  <2>3. ~Sending'
    BY <1>0, <2>1, <2>2 DEF Sending
  <2> QED
    BY <2>2, <2>3 DEF ExecuteStart, Awaiting, Executing, TimedOut
<1>3. VerdictOn(p) = "granted" /\ p \notin drainedOf
  BY <1>1 DEF VerdictOn, drainedOf
<1>4. \A q \in Prompts : VerdictOn(q)' = IF VerdictOn(q) = "open" THEN "withdrawn" ELSE VerdictOn(q)
  BY <1>2 DEF VerdictOn
<1>5. verdictOf' = [q \in Prompts |-> IF verdictOf[q] = "open" THEN "withdrawn" ELSE verdictOf[q]]
  BY <1>4, VerdictIs DEF verdictOf
<1>6. drainedOf' = drainedOf \cup {p}
  <2>1. \A q \in Prompts : runs'[q] > 0 <=> runs[q] > 0 \/ q = p
    BY <1>0, <1>1, <1>2
  <2> QED
    BY <1>1, <2>1 DEF drainedOf
<1>7. Consent!Drain(p)
  BY <1>1, <1>3, <1>5, <1>6, VerdictIs, SamePrompts DEF Consent!Drain
<1> QED
  BY <1>1, <1>7, SamePrompts DEF Consent!Next

LEMMA RefinesInit == Init => Consent!Init
<1> SUFFICES ASSUME Init PROVE Consent!Init
  OBVIOUS
<1>1. \A p \in Prompts : VerdictOn(p) = "unasked"
  BY DEF Init, VerdictOn, Prompts
<1>2. verdictOf = [p \in Consent!Prompts |-> "unasked"]
  BY <1>1, SamePrompts DEF verdictOf
<1>3. drainedOf = {}
  BY DEF Init, drainedOf
<1> QED
  BY <1>2, <1>3 DEF Consent!Init

LEMMA RefinesStep == IInv /\ [Next]_vars => [Consent!Next]_(Consent!vars)
<1> SUFFICES ASSUME IInv, [Next]_vars PROVE [Consent!Next]_(Consent!vars)
  OBVIOUS
<1>0. /\ pc \in [Threads -> Labels]
      /\ Ticker \in Threads /\ Responders \subseteq Threads /\ Ticker \notin Responders
      /\ Typed /\ Prompting /\ Answers
  BY ConstantsAssumption DEF IInv, Typed, ThreadsTyped, Threads
<1>1. CASE ReadingChanges \/ TimePasses \/ PutConfig \/ PutAutoDrainConfig \/ UNCHANGED vars
  BY <1>1, StepStutters DEF ReadingChanges, TimePasses, PutConfig, PutAutoDrainConfig, vars,
       machineVars, threadVars, historyVars, Sending
<1>2. CASE Reset
  BY <1>0, <1>2, StepCloses DEF Reset, ResetToIdle, threadVars, historyVars, Sending, Idle, Awaiting
<1>3. CASE Poll \/ TickConfig \/ SendWarning
  <2>1. Sending' <=> Sending
    BY <1>0, <1>3 DEF Poll, TickConfig, SendWarning, Goto, CountsAsSent, Sending
  <2> QED
    BY <1>3, <2>1, StepStutters DEF Poll, TickConfig, SendWarning, machineVars, historyVars
<1>4. CASE TickDisabled \/ TickWithdraw
  <2>1. ~Sending /\ ~Sending'
    BY <1>0, <1>4 DEF TickDisabled, TickWithdraw, TickLocked, Return, Sending
  <2> QED
    BY <1>0, <1>4, <2>1, StepCloses DEF TickDisabled, TickWithdraw, ResetToIdle, historyVars,
         Idle, Awaiting
<1>5. CASE TickQuiet
  <2>1. ~Sending /\ ~Sending' /\ UNCHANGED historyVars
    BY <1>0, <1>5 DEF TickQuiet, TickLocked, Return, Sending
  <2>2. state # WarningSent
    BY <1>0, <2>1 DEF Prompting, NothingAnsweredWhileSending
  <2>3. state' = Awaiting <=> state = Awaiting
    BY <1>5, <2>2 DEF TickQuiet, ResetToIdle, Rearms, Idle, Awaiting, Executing, Aborted, TimedOut
  <2> QED
    BY <2>1, <2>3, StepStutters DEF historyVars
<1>6. CASE TickWarn
  BY <1>6, StepAsks
<1>7. CASE TickTimeout
  <2>1. ~Sending /\ ~Sending'
    BY <1>0, <1>7 DEF TickTimeout, TickLocked, Goto, Sending
  <2> QED
    BY <1>0, <1>7, <2>1, StepAnswers DEF TickTimeout, Accept, Pending, Awaiting, TimedOut
<1>8. CASE WarningAccepted \/ WarningRefused
  BY <1>8, StepDelivers
<1>9. ASSUME NEW t \in Responders, RespondConfig(t) PROVE [Consent!Next]_(Consent!vars)
  <2>1. Sending' <=> Sending
    BY <1>0, <1>9 DEF RespondConfig, Goto, Sending
  <2> QED
    BY <1>9, <2>1, StepStutters DEF RespondConfig, machineVars, historyVars
<1>10. ASSUME NEW t \in Responders, RespondNothingPending(t) PROVE [Consent!Next]_(Consent!vars)
  <2>1. Sending' <=> Sending
    BY <1>0, <1>10 DEF RespondNothingPending, Return, Sending
  <2>2. state' = Awaiting <=> state = Awaiting
    BY <1>0, <1>10 DEF RespondNothingPending, Pending, ResetToIdle, Prompting,
         NotifiedIffPrompted, Idle, Awaiting
  <2> QED
    BY <1>10, <2>1, <2>2, StepStutters DEF RespondNothingPending, historyVars
<1>11. ASSUME NEW t \in Responders, RespondNo(t) \/ RespondYes(t)
       PROVE  [Consent!Next]_(Consent!vars)
  <2>1. state = Awaiting
    BY <1>0, <1>11 DEF RespondNo, RespondYes, Pending, Prompting, NotifiedIffPrompted,
         WarningSent, Awaiting, Executing, Aborted, TimedOut
  <2>2. ~Sending
    BY <1>0, <2>1 DEF Prompting, NothingAnsweredWhileSending, Idle, WarningSent, Awaiting
  <2>3. ~Sending'
    BY <1>0, <1>11, <2>2 DEF RespondNo, RespondYes, Return, Goto, Sending
  <2> QED
    BY <1>0, <1>11, <2>2, <2>3, StepAnswers DEF RespondNo, RespondYes, Accept, Awaiting,
         Executing, Aborted
<1>12. ASSUME NEW t \in Threads, ExecuteBlocked(t) PROVE [Consent!Next]_(Consent!vars)
  <2>1. Sending' <=> Sending
    BY <1>0, <1>12 DEF ExecuteBlocked, Return, Sending
  <2> QED
    BY <1>0, <1>12, <2>1, StepCloses DEF ExecuteBlocked, historyVars, Awaiting, Executing, TimedOut
<1>13. ASSUME NEW t \in Threads, ExecuteStart(t) PROVE [Consent!Next]_(Consent!vars)
  BY <1>13, StepDrains
<1>14. ASSUME NEW t \in Threads,
              ExecuteRefused(t) \/ RunCommand(t) \/ CommandFails(t) \/ Finish(t)
       PROVE  [Consent!Next]_(Consent!vars)
  <2>1. Sending' <=> Sending
    BY <1>0, <1>14 DEF ExecuteRefused, RunCommand, CommandFails, Finish, Return, Goto, After,
         Commands, Sending
  <2> QED
    BY <1>14, <2>1, StepStutters DEF ExecuteRefused, RunCommand, CommandFails, Finish,
         machineVars, historyVars
<1> QED
  BY <1>1, <1>2, <1>3, <1>4, <1>5, <1>6, <1>7, <1>8, <1>9, <1>10, <1>11, <1>12, <1>13, <1>14
     DEF Next, Tick, Respond, Execute

(* Whatever the poll goroutine, the requests and the settings handlers do   *)
(* to each other, the operator sees the protocol of DrainConsent: a prompt  *)
(* at a time, an answer that stands, and a drain only for a prompt that was *)
(* granted, once.                                                           *)
THEOREM ConsentIsKept == Spec => ImplementsConsent
BY RefinesInit, RefinesStep, IInvHolds, PTL DEF Spec, ImplementsConsent, Consent!Spec
=============================================================================
