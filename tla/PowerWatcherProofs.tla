--------------------------- MODULE PowerWatcherProofs ---------------------------
(***************************************************************************)
(* Theorems about PowerWatcher, for any number of adapters, any debounce   *)
(* and outages of any length.                                              *)
(*                                                                         *)
(* That an event follows a debounce time of equal polls rests on pending   *)
(* being the source of the last poll whenever one is pending, its age that *)
(* of the first poll in a row to see it (Follows).  That an outage is not  *)
(* overstated rests on the polls alone: those in a row that see the host   *)
(* off AC belong to the outage, and a loss is committed a debounce time    *)
(* after the first of them, so that the stamp is younger than the outage   *)
(* by as much (Stamped).                                                   *)
(***************************************************************************)
EXTENDS PowerWatcher, TLAPS

Follows ==
  /\ pending # "none" => lastSnap = pending /\ pendingFor = sameFor
  /\ baselined /\ pending = "none" => lastSnap = committed
  /\ ~baselined => pending = "none"

OffAC == {"BATTERY", "UNKNOWN"}

Stamped ==
  /\ ~baselined => lastSnap = "none" /\ outage = NoAge
  /\ lastSnap \in OffAC => outage \in Nat /\ sameFor <= outage
  /\ committed \in OffAC =>
       /\ outage \in Nat /\ offACFor \in Nat
       /\ outage = MaxAge \/ offACFor + (IF fromStart THEN 0 ELSE Debounce) <= outage

IInv == TypeOK /\ Follows /\ Stamped

LEMMA SeenIsSource == Seen \in Sources
BY DEF Seen, Classify, Sources

(* Time adds to an age, keeps it in its bounds, and keeps two in order.     *)
LEMMA OlderFacts ==
  ASSUME NEW bound \in Nat, NEW a \in 0 .. bound \cup {NoAge}
  PROVE  /\ Older(a, bound) \in 0 .. bound \cup {NoAge}
         /\ Older(a, bound) = NoAge <=> a = NoAge
         /\ a \in 0 .. bound => Older(a, bound) \in 0 .. bound
         /\ \A b \in 0 .. bound : a \in 0 .. bound /\ a <= b => Older(a, bound) <= Older(b, bound)
BY DEF Older, NoAge

LEMMA IInvInit == Init => IInv
<1> SUFFICES ASSUME Init
             PROVE  IInv
  OBVIOUS
<1>1. /\ online \in [Adapters -> Contents]
      /\ toRead \subseteq Adapters
      /\ found \in [Adapters -> Contents]
  BY DEF Init, Contents
<1>2. event \in [ from : Sources \cup {"none"}, to : Sources \cup {"none"},
                   duration : 0 .. MaxAge \cup {NoAge} ]
  BY DEF Init, NoEvent
<1>3. baselined <=> committed # "none"
  BY DEF Init
<1>4. pendingFor \in 0 .. Debounce /\ sameFor \in 0 .. Debounce
  BY ConstantsAssumption DEF Init
<1>5. TypeOK
  BY <1>1, <1>2, <1>3, <1>4 DEF Init, TypeOK
<1> QED
  BY <1>5 DEF Init, IInv, Follows, Stamped, OffAC

(* What a poll does to what it saw, and to the history of the polls.       *)
LEMMA PollTyped ==
  ASSUME IInv, NEW source \in Sources, Evaluate(source)
  PROVE  /\ online' = online /\ toRead' = toRead /\ found' = found
         /\ committed' = source
         /\ lastSnap' = Seen
         /\ sameFor' \in 0 .. Debounce
         /\ outage' \in 0 .. MaxAge \cup {NoAge}
         /\ fromStart' \in BOOLEAN
BY ConstantsAssumption DEF IInv, TypeOK, Evaluate, scanVars, NoAge

(* A poll that finds the host off AC belongs to an outage, as do the polls  *)
(* in a row before it.                                                      *)
LEMMA PollInOutage ==
  ASSUME IInv, NEW source \in Sources, Evaluate(source)
  PROVE  Seen \in OffAC => outage' \in Nat /\ sameFor' <= outage'
<1> SUFFICES ASSUME Seen \in OffAC PROVE outage' \in Nat /\ sameFor' <= outage'
  OBVIOUS
<1>1. /\ outage \in 0 .. MaxAge \cup {NoAge} /\ sameFor \in 0 .. Debounce
      /\ MaxAge \in Nat /\ Debounce \in Nat
  BY ConstantsAssumption DEF IInv, TypeOK
<1>2. outage' = IF outage = NoAge THEN 0 ELSE outage
  BY DEF Evaluate, OffAC
<1>3. sameFor' = IF lastSnap = Seen THEN sameFor ELSE 0
  BY DEF Evaluate
<1>4. lastSnap = Seen => outage \in Nat /\ sameFor <= outage
  BY DEF IInv, Stamped
<1> QED
  BY <1>1, <1>2, <1>3, <1>4 DEF NoAge

(* While the watcher has committed a source off AC, no poll ends the outage *)
(* that does not commit AC.                                                 *)
LEMMA PollKeepsOutage ==
  ASSUME IInv, Evaluate(committed), baselined, committed \in OffAC,
         Seen = "AC" /\ pending = "AC" => pendingFor < Debounce
  PROVE  outage' = outage /\ fromStart' = fromStart
<1>1. outage \in Nat /\ committed # "none" /\ lastSnap # "none"
  BY DEF IInv, Stamped, Follows, OffAC
<1>2. ~ACIsBack
  <2> SUFFICES ASSUME Seen = "AC", lastSnap = "AC" PROVE sameFor < Debounce
    BY ConstantsAssumption DEF ACIsBack, IInv, TypeOK
  <2>1. pending # "none"
    BY DEF IInv, Follows, OffAC
  <2> QED
    BY <2>1 DEF IInv, Follows
<1>3. outage' = outage
  BY <1>1, <1>2 DEF Evaluate, NoAge
<1>4. fromStart' = (outage' # NoAge /\ (fromStart \/ lastSnap = "none"))
  BY DEF Evaluate
<1>5. outage' # NoAge
  BY <1>1, <1>3 DEF NoAge
<1>6. fromStart \in BOOLEAN
  BY DEF IInv, TypeOK
<1> QED
  BY <1>1, <1>3, <1>4, <1>5, <1>6

(* A poll that changes neither the committed source nor its stamp.          *)
LEMMA QuietPoll ==
  ASSUME IInv, Evaluate(committed), baselined, baselined', UNCHANGED offACFor,
         Seen = "AC" /\ pending = "AC" => pendingFor < Debounce \/ committed = "AC"
  PROVE  Stamped'
<1>1. committed \in Sources /\ Seen \in Sources /\ committed' = committed /\ lastSnap' = Seen
  BY SeenIsSource DEF IInv, TypeOK, Evaluate
<1>2. lastSnap' \in OffAC => outage' \in Nat /\ sameFor' <= outage'
  BY <1>1, PollInOutage
<1>3. committed' \in OffAC =>
        /\ outage' \in Nat /\ offACFor' \in Nat
        /\ outage' = MaxAge \/ offACFor' + (IF fromStart' THEN 0 ELSE Debounce) <= outage'
  <2> SUFFICES ASSUME committed \in OffAC
               PROVE  /\ outage' \in Nat /\ offACFor' \in Nat
                      /\ \/ outage' = MaxAge
                         \/ offACFor' + (IF fromStart' THEN 0 ELSE Debounce) <= outage'
    BY <1>1
  <2>1. outage' = outage /\ fromStart' = fromStart
    BY PollKeepsOutage DEF OffAC
  <2> QED
    BY <2>1 DEF IInv, Stamped
<1> QED
  BY <1>2, <1>3 DEF Stamped

LEMMA IInvStep == IInv /\ [Next]_vars => IInv'
<1> SUFFICES ASSUME IInv, [Next]_vars
             PROVE  IInv'
  OBVIOUS
<1> USE DEF IInv
<1>1. CASE UNCHANGED vars
  BY <1>1 DEF vars, scanVars, watcherVars, historyVars, TypeOK, Follows, Stamped, OffAC
<1>2. CASE AdapterChanges
  BY <1>2 DEF AdapterChanges, scanVars, watcherVars, historyVars, TypeOK, Follows, Stamped
<1>3. CASE TimePasses
  <2>1. /\ pendingFor' \in 0 .. Debounce
        /\ sameFor' \in 0 .. Debounce
        /\ pendingFor = sameFor => pendingFor' = sameFor'
    BY <1>3, OlderFacts, ConstantsAssumption DEF TimePasses, TypeOK
  <2>2. /\ offACFor' \in 0 .. MaxAge \cup {NoAge}
        /\ outage' \in 0 .. MaxAge \cup {NoAge}
        /\ outage = NoAge => outage' = NoAge
    BY <1>3, OlderFacts, ConstantsAssumption DEF TimePasses, TypeOK
  <2>3. /\ UNCHANGED <<committed, baselined, lastSnap, pending, fromStart>>
        /\ sameFor' = Older(sameFor, Debounce) /\ outage' = Older(outage, MaxAge)
        /\ offACFor' = Older(offACFor, MaxAge)
    BY <1>3 DEF TimePasses
  <2>4. /\ MaxAge \in Nat /\ Debounce \in Nat /\ Debounce <= MaxAge
        /\ sameFor \in 0 .. Debounce
        /\ outage \in 0 .. MaxAge \cup {NoAge} /\ offACFor \in 0 .. MaxAge \cup {NoAge}
    BY ConstantsAssumption DEF TypeOK
  <2>5. outage \in Nat /\ sameFor <= outage => outage' \in Nat /\ sameFor' <= outage'
    BY <2>3, <2>4 DEF Older, NoAge
  <2>6. ASSUME NEW margin \in 0 .. Debounce, outage \in Nat, offACFor \in Nat,
               outage = MaxAge \/ offACFor + margin <= outage
        PROVE  /\ outage' \in Nat /\ offACFor' \in Nat
               /\ outage' = MaxAge \/ offACFor' + margin <= outage'
    BY <2>3, <2>4, <2>6 DEF Older, NoAge
  <2>7. PICK margin \in 0 .. Debounce : margin = IF fromStart THEN 0 ELSE Debounce
    BY <2>4
  <2>8. Stamped'
    BY <2>2, <2>3, <2>5, <2>6, <2>7 DEF Stamped
  <2>9. TypeOK'
    BY <1>3, <2>1, <2>2 DEF TimePasses, scanVars, TypeOK
  <2> QED
    BY <1>3, <2>1, <2>8, <2>9 DEF TimePasses, Follows
<1>4. CASE StartScan
  BY <1>4 DEF StartScan, watcherVars, historyVars, TypeOK, Follows, Stamped, Contents
<1>5. CASE ReadAdapter
  BY <1>5 DEF ReadAdapter, watcherVars, historyVars, TypeOK, Follows, Stamped
<1>6. CASE OnEvent
  BY <1>6 DEF OnEvent, NoEvent, scanVars, watcherVars, historyVars, TypeOK, Follows, Stamped
<1>7. CASE Baseline
  <2>1. Evaluate(Seen) /\ ~baselined
    BY <1>7 DEF Baseline
  <2>2. /\ UNCHANGED <<online, toRead, found, pending, pendingFor, event>>
        /\ pc' = "idle"
        /\ baselined'
    BY <1>7 DEF Baseline, Evaluate, Quiet, scanVars
  <2>3. /\ committed = "none" /\ outage = NoAge /\ committed' = Seen /\ lastSnap' = Seen
        /\ sameFor' \in 0 .. Debounce /\ fromStart' \in BOOLEAN /\ lastSnap = "none"
    BY <2>1, SeenIsSource, PollTyped DEF TypeOK, Stamped
  <2>4. pending = "none"
    BY <2>1 DEF Follows
  <2>5. /\ outage' = IF Seen = "AC" THEN NoAge ELSE 0
        /\ sameFor' = 0
        /\ Seen # "AC" => fromStart'
    <3>1. outage' = IF Seen = "AC" THEN NoAge ELSE 0
      BY <2>1, <2>3 DEF Evaluate, ACIsBack
    <3>2. sameFor' = 0
      BY <2>1, <2>3, SeenIsSource DEF Evaluate, Sources
    <3>3. fromStart' = (outage' # NoAge /\ (fromStart \/ lastSnap = "none"))
      BY <2>1 DEF Evaluate
    <3>4. Seen # "AC" => outage' # NoAge
      BY <3>1 DEF NoAge
    <3> QED
      BY <2>3, <3>1, <3>2, <3>3, <3>4
  <2>6. offACFor' = IF Seen = "AC" THEN offACFor ELSE 0
    BY <1>7 DEF Baseline, StampOffAC
  <2>7. TypeOK'
    BY <2>2, <2>3, <2>4, <2>5, <2>6, SeenIsSource, ConstantsAssumption DEF TypeOK, Sources, NoAge
  <2>8. Stamped'
    BY <2>2, <2>3, <2>5, <2>6 DEF Stamped, OffAC
  <2> QED
    BY <2>2, <2>3, <2>4, <2>7, <2>8 DEF Follows
<1>8. CASE Same
  <2>1. TypeOK' /\ Follows'
    BY <1>8, SeenIsSource, PollTyped, ConstantsAssumption
       DEF Same, ClearPending, Quiet, TypeOK, Follows
  <2>2. Stamped'
    BY <1>8, QuietPoll DEF Same
  <2> QED
    BY <2>1, <2>2
<1>9. CASE FirstSight
  <2>1. TypeOK' /\ Follows'
    BY <1>9, SeenIsSource, PollTyped, ConstantsAssumption
       DEF FirstSight, NewlyPending, Evaluate, Quiet, TypeOK, Follows, Sources
  <2>2. Stamped'
    BY <1>9, QuietPoll DEF FirstSight, NewlyPending
  <2> QED
    BY <2>1, <2>2
<1>10. CASE StillPending
  <2>1. TypeOK' /\ Follows'
    BY <1>10, SeenIsSource, PollTyped, ConstantsAssumption
       DEF StillPending, NewlyPending, Evaluate, Quiet, TypeOK, Follows, Sources
  <2>2. Stamped'
    BY <1>10, QuietPoll DEF StillPending
  <2> QED
    BY <2>1, <2>2
<1>11. CASE Transit
  <2>1. TypeOK' /\ Follows'
    BY <1>11, SeenIsSource, PollTyped, ConstantsAssumption
       DEF Transit, StampOffAC, ClearPending, TypeOK, Follows, Sources, NoAge
  <2>2. Evaluate(Seen) /\ Seen \in Sources /\ committed' = Seen /\ lastSnap' = Seen /\ baselined'
    BY <1>11, SeenIsSource DEF Transit, Evaluate
  <2>3. Seen \in OffAC => outage' \in Nat /\ sameFor' <= outage'
    BY <2>2, PollInOutage
  <2>4. sameFor' >= Debounce
    BY <1>11, <2>2 DEF Transit, NewlyPending, Evaluate, Follows, Sources
  <2>5. Seen \in OffAC => offACFor' = 0
    BY <1>11 DEF Transit, StampOffAC, OffAC
  <2>6. /\ Debounce \in Nat /\ sameFor' \in Nat
    BY <2>1, ConstantsAssumption DEF TypeOK
  <2>7. Seen \in OffAC => offACFor' + (IF fromStart' THEN 0 ELSE Debounce) <= outage'
    BY <2>3, <2>4, <2>5, <2>6
  <2>8. Stamped'
    BY <2>2, <2>3, <2>5, <2>7 DEF Stamped
  <2> QED
    BY <2>1, <2>8
<1> QED
  BY <1>1, <1>2, <1>3, <1>4, <1>5, <1>6, <1>7, <1>8, <1>9, <1>10, <1>11 DEF Next, Tick

LEMMA IInvHolds == Spec => []IInv
BY IInvInit, IInvStep, PTL DEF Spec

(* Every variable of the watcher keeps a value of its kind. *)
THEOREM TypeCorrect == Spec => []TypeOK
<1>1. IInv => TypeOK
  BY DEF IInv
<1> QED
  BY IInvHolds, <1>1, PTL

-----------------------------------------------------------------------------
(* Events. *)

StableNow == baselined /\ committed' # committed =>
               sameFor' >= Debounce /\ lastSnap = committed' /\ lastSnap' = committed'

DurationNow ==
  event' # event /\ event'.to = "AC" =>
    /\ outage # NoAge
    /\ event'.duration >= 0
    /\ \/ outage = MaxAge
       \/ event'.duration + (IF fromStart THEN 0 ELSE Debounce) <= outage

(* Only Transit commits after the baseline, and only Transit and OnEvent    *)
(* change the event.                                                        *)
LEMMA OnlyTransit ==
  ASSUME [Next]_vars
  PROVE  /\ baselined /\ committed' # committed => Transit
         /\ event' # event => Transit \/ event' = NoEvent
BY DEF Next, Tick, vars, watcherVars, scanVars, historyVars, AdapterChanges, TimePasses, StartScan,
       ReadAdapter, Baseline, Same, FirstSight, StillPending, OnEvent, Evaluate, Quiet

LEMMA TransitFacts ==
  ASSUME IInv, Transit
  PROVE  StableNow /\ DurationNow
<1>1. Seen \in Sources /\ Seen # committed /\ pending = Seen /\ pendingFor >= Debounce
  BY SeenIsSource DEF Transit, NewlyPending, Evaluate
<1>2. lastSnap = Seen /\ pendingFor = sameFor
  BY <1>1 DEF IInv, Follows, Sources
<1>3. committed' = Seen /\ lastSnap' = Seen /\ sameFor' = sameFor
  BY <1>2 DEF Transit, Evaluate
<1>4. StableNow
  BY <1>1, <1>2, <1>3 DEF StableNow
<1>5. event'.to = Seen /\ event'.duration = IF Seen = "AC" THEN offACFor ELSE NoAge
  BY DEF Transit
<1>6. CASE Seen = "AC"
  <2>1. committed \in {"BATTERY", "UNKNOWN"}
    BY <1>1, <1>6 DEF IInv, TypeOK, Transit, Sources
  <2> QED
    BY <1>4, <1>5, <1>6, <2>1 DEF DurationNow, IInv, Stamped, OffAC, NoAge
<1>7. CASE Seen # "AC"
  BY <1>4, <1>5, <1>7 DEF DurationNow
<1> QED
  BY <1>6, <1>7

(* An event is raised only for a source that every poll of the debounce     *)
(* time has seen.                                                           *)
THEOREM EventsAreStable == Spec => StableForDebounce
<1>1. IInv /\ [Next]_vars => StableNow
  BY OnlyTransit, TransitFacts DEF StableNow
<1> QED
  BY IInvHolds, <1>1, PTL DEF Spec, StableForDebounce, StableNow

(* evaluateLocked never reports more than the time since the first poll     *)
(* that found the host off AC, less the debounce unless it started so.      *)
THEOREM DurationIsBounded == Spec => DurationWithinOutage
<1>1. IInv /\ [Next]_vars => DurationNow
  BY OnlyTransit, TransitFacts DEF DurationNow, NoEvent
<1> QED
  BY IInvHolds, <1>1, PTL DEF Spec, DurationWithinOutage, DurationNow
=============================================================================
