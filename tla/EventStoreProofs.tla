-------------------------- MODULE EventStoreProofs --------------------------
(* Theorems about EventStore, for every number of calls and rows. *)
EXTENDS EventStore, FiniteSetTheorems, TLAPS

(* The sequence counts the rows stored, and each got the count as its id.  *)
Counted ==
  /\ stored \in Seq([ id: Nat, type: Types, at: Int ])
  /\ instant \in [Writers -> Int]
  /\ clock \in Int
  /\ seq = Len(stored)
  /\ \A i \in DOMAIN stored : stored[i].id = i

(* Nothing but an INSERT touches the sequence or what was stored. *)
LEMMA InitCounted == Init => Counted
  BY StoreAssumption DEF Init, Counted, Instants

LEMMA StepCounted == Counted /\ [Next]_vars => Counted'
<1> SUFFICES ASSUME Counted, [Next]_vars PROVE Counted'
  OBVIOUS
<1> USE StoreAssumption DEF Counted
<1>1. ASSUME NEW w \in Writers, Stamp(w) PROVE Counted'
  BY <1>1 DEF Stamp, storeVars
<1>2. ASSUME NEW w \in Writers, Insert(w) PROVE Counted'
  <2>1. PICK t \in Types :
          stored' = Append(stored, [ id |-> NextId, type |-> t, at |-> instant[w] ])
    BY <1>2 DEF Insert
  <2>2. [ id |-> NextId, type |-> t, at |-> instant[w] ] \in [ id: Nat, type: Types, at: Int ]
    BY DEF NextId
  <2>3. stored' \in Seq([ id: Nat, type: Types, at: Int ]) /\ Len(stored') = Len(stored) + 1
    BY <2>1, <2>2
  <2>4. \A i \in DOMAIN stored' : stored'[i].id = i
    BY <2>1, <2>2, <2>3 DEF NextId
  <2> QED
    BY <1>2, <2>3, <2>4 DEF Insert, NextId
<1>3. ASSUME NEW w \in Writers, Prune(w) PROVE Counted'
  BY <1>3 DEF Prune, storeVars, Cutoff
<1>4. ASSUME NEW w \in Writers, DeleteOld(w) PROVE Counted'
  BY <1>4 DEF DeleteOld
<1>5. ASSUME NEW w \in Writers, DeleteSurplus(w) PROVE Counted'
  BY <1>5 DEF DeleteSurplus
<1>6. ASSUME NEW w \in Writers, Fail(w) PROVE Counted'
  BY <1>6 DEF Fail, storeVars
<1>7. CASE Restart
  BY <1>7 DEF Restart, storeVars
<1>8. CASE SetClock
  BY <1>8 DEF SetClock, storeVars, Instants
<1>9. CASE UNCHANGED vars
  BY <1>9 DEF vars, storeVars
<1> QED
  BY <1>1, <1>2, <1>3, <1>4, <1>5, <1>6, <1>7, <1>8, <1>9 DEF Next

(* An id is never given twice, whatever was pruned, for any number of      *)
(* calls, failures and restarts, and whatever the clock does: the order of *)
(* ids, which pruning and the audit listing rely on, is the order in which *)
(* rows were stored (sqlite.go:21, 180).                                   *)
THEOREM IdsAreFresh == Spec => []IdsNeverReused
<1>1. Counted => IdsNeverReused
  BY DEF Counted, IdsNeverReused
<1> QED
  BY <1>1, InitCounted, StepCounted, PTL DEF Spec

-----------------------------------------------------------------------------
(* No recent row is lost. *)

(* What is in the table was stored; a cutoff is MaxAge before a time the   *)
(* clock has shown.                                                        *)
Cutting ==
  /\ \A r \in rows : \E i \in DOMAIN stored : r = stored[i]
  /\ latest \in Int /\ clock <= latest
  /\ pc \in [Writers -> {"idle", "insert", "prune", "old", "surplus"}]
  /\ \A w \in Writers : pc[w] = "old" => instant[w] <= latest - MaxAge

(* Text order is time order but for the fractions of one second. *)
LEMMA TextOrder ==
  ASSUME NEW a \in Int, NEW b \in Int, TextBefore(a, b)
  PROVE  a <= b + 1
  BY DEF TextBefore

(* Rows with ids above i are among those stored after the i-th. *)
LEMMA NewerWereStored ==
  ASSUME Counted, Cutting, NEW r \in rows, NEW i \in DOMAIN stored, r = stored[i]
  PROVE  /\ IsFiniteSet(NewerThan(r))
         /\ Cardinality(NewerThan(r)) <= Len(stored) - i
<1> DEFINE Later == i + 1 .. Len(stored)
           f == [q \in NewerThan(r) |-> q.id]
<1>1. i \in Nat /\ i <= Len(stored) /\ Len(stored) \in Nat /\ r.id = i
  BY DEF Counted
<1>2. \A q \in NewerThan(r) : q.id \in Later /\ q = stored[q.id]
  BY <1>1 DEF NewerThan, Counted, Cutting
<1>3. f \in [NewerThan(r) -> Later]
  BY <1>2
<1>4. \A p, q \in NewerThan(r) : f[p] = f[q] => p = q
  BY <1>2
<1>5. f \in Injection(NewerThan(r), Later)
  BY <1>3, <1>4 DEF Injection, IsInjective
<1>6. /\ IsFiniteSet(Later)
      /\ Cardinality(Later) = IF i + 1 > Len(stored) THEN 0 ELSE Len(stored) - (i + 1) + 1
  <2>1. i + 1 \in Int /\ Len(stored) \in Int
    BY <1>1
  <2> QED
    BY <2>1, FS_Interval, Zenon
<1>7. IsFiniteSet(NewerThan(r)) /\ Cardinality(NewerThan(r)) <= Cardinality(Later)
  BY <1>5, <1>6, FS_Injection
<1> QED
  BY <1>1, <1>6, <1>7, FS_CardinalityType

LEMMA RowStored ==
  ASSUME Counted, NEW i \in DOMAIN stored
  PROVE  stored[i] \in [ id: Nat, type: Types, at: Int ] /\ stored[i].at \in Int
<1> DEFINE S == [ id: Nat, type: Types, at: Int ]
<1>1. stored \in Seq(S) /\ i \in 1 .. Len(stored)
  BY DEF Counted
<1>2. stored[i] \in S
  <2> HIDE DEF S
  <2> QED
    BY <1>1
<1> QED
  BY <1>2

(* What an INSERT does to the rows stored. *)
LEMMA Inserted ==
  ASSUME Counted, NEW w \in Writers, Insert(w)
  PROVE  \E row :
           /\ rows' = rows \cup {row}
           /\ Len(stored') = Len(stored) + 1
           /\ DOMAIN stored' = DOMAIN stored \cup {Len(stored) + 1}
           /\ \A i \in DOMAIN stored : stored'[i] = stored[i]
           /\ stored'[Len(stored) + 1] = row
<1> DEFINE Row(t) == [ id |-> NextId, type |-> t, at |-> instant[w] ]
<1>1. PICK t \in Types : rows' = rows \cup {Row(t)} /\ stored' = Append(stored, Row(t))
  BY DEF Insert
<1>2. stored \in Seq([ id: Nat, type: Types, at: Int ]) /\ Row(t) \in [ id: Nat, type: Types, at: Int ]
  BY DEF Counted, NextId
<1> HIDE DEF Row
<1>3. /\ Len(stored') = Len(stored) + 1
      /\ DOMAIN stored' = DOMAIN stored \cup {Len(stored) + 1}
      /\ \A i \in DOMAIN stored : stored'[i] = stored[i]
      /\ stored'[Len(stored) + 1] = Row(t)
  BY <1>1, <1>2
<1> QED
  BY <1>1, <1>3

LEMMA InitCutting == Init => Cutting
  BY StoreAssumption DEF Init, Cutting, Instants

LEMMA StepCutting == Counted /\ Cutting /\ [Next]_vars => Cutting'
<1> SUFFICES ASSUME Counted, Cutting, [Next]_vars PROVE Cutting'
  OBVIOUS
<1> USE StoreAssumption DEF Cutting
<1>0. clock \in Int /\ instant \in [Writers -> Int]
  BY DEF Counted
<1>1. ASSUME NEW w \in Writers, Stamp(w) PROVE Cutting'
  BY <1>0, <1>1 DEF Stamp, storeVars
<1>2. ASSUME NEW w \in Writers, Insert(w) PROVE Cutting'
  <2>1. PICK row :
          /\ rows' = rows \cup {row}
          /\ DOMAIN stored' = DOMAIN stored \cup {Len(stored) + 1}
          /\ \A i \in DOMAIN stored : stored'[i] = stored[i]
          /\ stored'[Len(stored) + 1] = row
    BY <1>2, Inserted
  <2>2. \A r \in rows : \E i \in DOMAIN stored : r = stored[i]
    BY DEF Cutting
  <2>3. \A r \in rows' : \E i \in DOMAIN stored' : r = stored'[i]
    BY ONLY <2>1, <2>2
  <2> QED
    BY <1>0, <1>2, <2>3 DEF Insert
<1>3. ASSUME NEW w \in Writers, Prune(w) PROVE Cutting'
  BY <1>0, <1>3 DEF Prune, storeVars, Cutoff
<1>4. ASSUME NEW w \in Writers, DeleteOld(w) PROVE Cutting'
  BY <1>4 DEF DeleteOld
<1>5. ASSUME NEW w \in Writers, DeleteSurplus(w) PROVE Cutting'
  BY <1>0, <1>5 DEF DeleteSurplus, Newest
<1>6. ASSUME NEW w \in Writers, Fail(w) PROVE Cutting'
  BY <1>0, <1>6 DEF Fail, storeVars
<1>7. CASE Restart
  BY <1>0, <1>7 DEF Restart, storeVars
<1>8. CASE SetClock
  BY <1>0, <1>8 DEF SetClock, storeVars, Instants
<1>9. CASE UNCHANGED vars
  BY <1>9 DEF vars, storeVars
<1> QED
  BY <1>1, <1>2, <1>3, <1>4, <1>5, <1>6, <1>7, <1>8, <1>9 DEF Next

(* Only the two DELETEs take rows away: the first takes old ones, the      *)
(* second those with MaxEvents rows after them.                            *)
LEMMA StepRecentKept ==
  Counted /\ Cutting /\ RecentKept /\ [Next]_vars => RecentKept'
<1> SUFFICES ASSUME Counted, Cutting, RecentKept, [Next]_vars PROVE RecentKept'
  OBVIOUS
<1>0. /\ stored \in Seq([ id: Nat, type: Types, at: Int ])
      /\ latest \in Int /\ MaxAge \in Int /\ MaxEvents \in Nat
  BY StoreAssumption DEF Counted, Cutting
<1>1. CASE /\ rows \subseteq rows'
           /\ UNCHANGED stored
           /\ latest' \in Int /\ latest <= latest'
  <2>1. ASSUME NEW i \in DOMAIN stored
        PROVE  \/ stored[i] \in rows'
               \/ stored[i].at <= latest' - MaxAge + 1
               \/ Len(stored) - i >= MaxEvents
    <3>1. stored[i].at \in Int
      BY <2>1, RowStored
    <3>2. \/ stored[i] \in rows
          \/ stored[i].at <= latest - MaxAge + 1
          \/ Len(stored) - i >= MaxEvents
      BY DEF RecentKept
    <3> QED
      BY <1>0, <1>1, <3>1, <3>2
  <2> QED
    BY <1>1, <2>1 DEF RecentKept
<1>2. ASSUME NEW w \in Writers, Insert(w) PROVE RecentKept'
  <2>1. PICK row :
          /\ rows' = rows \cup {row}
          /\ Len(stored') = Len(stored) + 1
          /\ DOMAIN stored' = DOMAIN stored \cup {Len(stored) + 1}
          /\ \A i \in DOMAIN stored : stored'[i] = stored[i]
          /\ stored'[Len(stored) + 1] = row
    BY <1>2, Inserted
  <2>2. latest' = latest
    BY <1>2 DEF Insert
  <2>3. ASSUME NEW i \in DOMAIN stored
        PROVE  \/ stored'[i] \in rows'
               \/ stored'[i].at <= latest' - MaxAge + 1
               \/ Len(stored') - i >= MaxEvents
    <3>1. stored'[i] = stored[i] /\ i \in Int /\ Len(stored) \in Int
      BY <1>0, <2>1
    <3>2. \/ stored[i] \in rows
          \/ stored[i].at <= latest - MaxAge + 1
          \/ Len(stored) - i >= MaxEvents
      BY DEF RecentKept
    <3>3. Len(stored) - i >= MaxEvents => Len(stored') - i >= MaxEvents
      BY <1>0, <2>1, <3>1
    <3> QED
      BY <2>1, <2>2, <3>1, <3>2, <3>3
  <2>4. stored'[Len(stored) + 1] \in rows'
    BY <2>1
  <2> QED
    BY <2>1, <2>3, <2>4 DEF RecentKept
<1>3. ASSUME NEW w \in Writers, DeleteOld(w) PROVE RecentKept'
  <2>1. instant[w] \in Int /\ instant[w] <= latest - MaxAge
    BY <1>3 DEF DeleteOld, Counted, Cutting
  <2>2. ASSUME NEW i \in DOMAIN stored, stored[i] \in rows, stored[i] \notin rows'
        PROVE  stored[i].at <= latest - MaxAge + 1
    <3>1. stored[i].at \in Int /\ TextBefore(stored[i].at, instant[w])
      <4>1. stored[i].at \in Int
        BY <2>2, RowStored
      <4>2. rows' = {r \in rows : ~TextBefore(r.at, instant[w])}
        BY <1>3 DEF DeleteOld
      <4>3. TextBefore(stored[i].at, instant[w])
        BY <2>2, <4>2
      <4> QED
        BY <4>1, <4>3
    <3>2. stored[i].at <= instant[w] + 1
      BY <2>1, <3>1, TextOrder
    <3> QED
      BY <1>0, <2>1, <3>1, <3>2
  <2> QED
    BY <1>0, <1>3, <2>2 DEF DeleteOld, RecentKept
<1>4. ASSUME NEW w \in Writers, DeleteSurplus(w) PROVE RecentKept'
  <2>1. ASSUME NEW i \in DOMAIN stored, stored[i] \in rows, stored[i] \notin rows'
        PROVE  Len(stored) - i >= MaxEvents
    <3>1. ~(Cardinality(NewerThan(stored[i])) < MaxEvents)
      BY <1>4, <2>1 DEF DeleteSurplus, Newest
    <3>2. /\ Cardinality(NewerThan(stored[i])) \in Nat
          /\ Cardinality(NewerThan(stored[i])) <= Len(stored) - i
      BY <2>1, NewerWereStored, FS_CardinalityType
    <3> QED
      BY <1>0, <3>1, <3>2
  <2> QED
    BY <1>0, <1>4, <2>1 DEF DeleteSurplus, RecentKept
<1>5. CASE SetClock
  <2>1. latest' \in Int /\ latest <= latest'
    BY <1>0, <1>5, StoreAssumption DEF SetClock, Instants
  <2> QED
    BY <1>1, <1>5, <2>1 DEF SetClock, storeVars
<1>6. ASSUME NEW w \in Writers, Stamp(w) \/ Prune(w) \/ Fail(w) PROVE RecentKept'
  BY <1>0, <1>1, <1>6 DEF Stamp, Prune, Fail, storeVars
<1>7. CASE Restart
  BY <1>0, <1>1, <1>7 DEF Restart, storeVars
<1>8. CASE UNCHANGED vars
  BY <1>0, <1>1, <1>8 DEF vars, storeVars
<1> QED
  BY <1>2, <1>3, <1>4, <1>5, <1>6, <1>7, <1>8 DEF Next

(* A row leaves the table only when it is MaxAge old, to the second, by a  *)
(* time the clock has shown, or when MaxEvents rows were stored after it:  *)
(* for any number of overlapping, failing and interrupted inserts, with a  *)
(* clock that is set back and forth (sqlite.go:92-118, 175-182).           *)
THEOREM RecentRowsSurvive == Spec => []RecentKept
<1>1. Init => RecentKept
  BY DEF Init, RecentKept
<1> QED
  BY <1>1, InitCounted, StepCounted, InitCutting, StepCutting, StepRecentKept, PTL DEF Spec

-----------------------------------------------------------------------------
(* The table is bounded. *)

(* The number of rows above a row tells the rows apart. *)
LEMMA NewestAreFew ==
  ASSUME Counted, Cutting
  PROVE  IsFiniteSet(Newest) /\ Cardinality(Newest) <= MaxEvents
<1> DEFINE f == [r \in Newest |-> Cardinality(NewerThan(r))]
           Places == 0 .. MaxEvents - 1
<1>1. ASSUME NEW r \in rows
      PROVE  /\ IsFiniteSet(NewerThan(r)) /\ Cardinality(NewerThan(r)) \in Nat
             /\ r.id \in DOMAIN stored /\ r = stored[r.id] /\ r.id \in Nat
  <2>1. PICK i \in DOMAIN stored : r = stored[i]
    BY <1>1 DEF Cutting
  <2>2. r.id = i /\ i \in Nat
    BY <2>1 DEF Counted
  <2> QED
    BY <1>1, <2>1, <2>2, NewerWereStored, FS_CardinalityType
<1>2. ASSUME NEW p \in rows, NEW q \in rows, p.id < q.id
      PROVE  Cardinality(NewerThan(q)) < Cardinality(NewerThan(p))
  <2>1. p.id \in Nat /\ q.id \in Nat /\ \A r \in rows : r.id \in Nat
    BY <1>1
  <2>2. q \notin NewerThan(q) /\ NewerThan(q) \cup {q} \subseteq NewerThan(p)
    BY <1>2, <2>1 DEF NewerThan
  <2>3. Cardinality(NewerThan(q) \cup {q}) = Cardinality(NewerThan(q)) + 1
    BY <1>1, <2>2, FS_AddElement
  <2>4. Cardinality(NewerThan(q) \cup {q}) <= Cardinality(NewerThan(p))
    BY <1>1, <2>2, FS_Subset
  <2> QED
    BY <1>1, <2>3, <2>4
<1>3. f \in [Newest -> Places]
  <2>1. ASSUME NEW r \in Newest PROVE Cardinality(NewerThan(r)) \in Places
    BY <1>1, StoreAssumption DEF Newest
  <2> QED
    BY <2>1
<1>4. ASSUME NEW p \in Newest, NEW q \in Newest, f[p] = f[q] PROVE p = q
  <2>1. p \in rows /\ q \in rows
    BY DEF Newest
  <2>2. ~(p.id < q.id) /\ ~(q.id < p.id)
    <3>1. Cardinality(NewerThan(p)) = Cardinality(NewerThan(q))
      BY <1>4
    <3>2. Cardinality(NewerThan(p)) \in Nat
      BY <1>1, <2>1
    <3> QED
      BY <1>2, <2>1, <3>1, <3>2
  <2>3. p.id = q.id
    BY <1>1, <2>1, <2>2
  <2> QED
    BY <1>1, <2>1, <2>3
<1>5. f \in Injection(Newest, Places)
  BY <1>3, <1>4 DEF Injection, IsInjective
<1>6. IsFiniteSet(Places) /\ Cardinality(Places) = MaxEvents
  <2>1. 0 \in Int /\ MaxEvents - 1 \in Int /\ ~(0 > MaxEvents - 1) /\ MaxEvents - 1 - 0 + 1 = MaxEvents
    BY StoreAssumption
  <2>2. /\ IsFiniteSet(Places)
        /\ Cardinality(Places) = IF 0 > MaxEvents - 1 THEN 0 ELSE MaxEvents - 1 - 0 + 1
    BY <2>1, FS_Interval, Zenon
  <2> QED
    BY <2>1, <2>2
<1> QED
  BY <1>5, <1>6, FS_Injection

(* The bound, with what it counts. *)
Counting ==
  /\ Bounded
  /\ IsFiniteSet(rows)
  /\ abandoned \in Nat

LEMMA InitCounting == Init => Counting
<1> SUFFICES ASSUME Init PROVE Counting
  OBVIOUS
<1>1. rows = {} /\ abandoned = 0 /\ Storing = {}
  BY DEF Init, Storing
<1> QED
  BY <1>1, FS_EmptySet, StoreAssumption DEF Counting, Bounded

(* Calls between their INSERT and their last DELETE are finitely many. *)
LEMMA StoringIsFinite ==
  /\ IsFiniteSet(Storing) /\ Cardinality(Storing) \in Nat
  /\ IsFiniteSet(Storing') /\ Cardinality(Storing') \in Nat
<1>1. Storing \subseteq Writers /\ Storing' \subseteq Writers
  BY DEF Storing
<1> QED
  BY <1>1, StoreAssumption, FS_Subset, FS_CardinalityType

LEMMA StepCounting ==
  Counted /\ Cutting /\ Counting /\ [Next]_vars => Counting'
<1> SUFFICES ASSUME Counted, Cutting, Counting, [Next]_vars PROVE Counting'
  OBVIOUS
<1>0. /\ pc \in [Writers -> {"idle", "insert", "prune", "old", "surplus"}]
      /\ IsFiniteSet(rows) /\ Cardinality(rows) \in Nat /\ abandoned \in Nat
      /\ MaxEvents \in Nat
      /\ Cardinality(rows) <= MaxEvents + Cardinality(Storing) + abandoned
  BY StoreAssumption, FS_CardinalityType DEF Cutting, Counting, Bounded
<1>1. CASE rows' \subseteq rows /\ Storing' = Storing /\ abandoned' = abandoned
  <2>1. IsFiniteSet(rows') /\ Cardinality(rows') <= Cardinality(rows) /\ Cardinality(rows') \in Nat
    BY <1>0, <1>1, FS_Subset, FS_CardinalityType
  <2> QED
    BY <1>0, <1>1, <2>1, StoringIsFinite DEF Counting, Bounded
<1>2. ASSUME NEW w \in Writers, Insert(w) PROVE Counting'
  <2>1. PICK row : rows' = rows \cup {row}
    BY <1>2 DEF Insert
  <2>2. /\ IsFiniteSet(rows') /\ Cardinality(rows') \in Nat
        /\ Cardinality(rows') <= Cardinality(rows) + 1
    <3>1. /\ IsFiniteSet(rows \cup {row})
          /\ Cardinality(rows \cup {row}) =
               IF row \in rows THEN Cardinality(rows) ELSE Cardinality(rows) + 1
      BY <1>0, FS_AddElement, Zenon
    <3> QED
      BY <1>0, <2>1, <3>1
  <2>3. w \notin Storing /\ Storing' = Storing \cup {w} /\ abandoned' = abandoned
    BY <1>0, <1>2 DEF Insert, Storing
  <2>4. Cardinality(Storing') = Cardinality(Storing) + 1
    BY <2>3, StoringIsFinite, FS_AddElement
  <2> QED
    BY <1>0, <2>2, <2>3, <2>4, StoringIsFinite DEF Counting, Bounded
<1>3. ASSUME NEW w \in Writers, DeleteSurplus(w) PROVE Counting'
  <2>1. rows' = Newest /\ abandoned' = 0
    BY <1>3 DEF DeleteSurplus
  <2>2. IsFiniteSet(rows') /\ Cardinality(rows') <= MaxEvents /\ Cardinality(rows') \in Nat
    BY <2>1, NewestAreFew, FS_CardinalityType
  <2> QED
    BY <1>0, <2>1, <2>2, StoringIsFinite DEF Counting, Bounded
<1>4. ASSUME NEW w \in Writers, Fail(w) PROVE Counting'
  <2>1. Storing' = Storing \ {w} /\ rows' = rows
    BY <1>0, <1>4 DEF Fail, Storing, storeVars
  <2>2. abandoned' = IF w \in Storing THEN abandoned + 1 ELSE abandoned
    BY <1>4 DEF Fail
  <2>3. CASE w \in Storing
    <3>1. Cardinality(Storing') = Cardinality(Storing) - 1
      BY <2>1, <2>3, StoringIsFinite, FS_RemoveElement
    <3> QED
      BY <1>0, <2>1, <2>2, <2>3, <3>1, StoringIsFinite DEF Counting, Bounded
  <2>4. CASE w \notin Storing
    <3>1. Storing' = Storing
      BY <2>1, <2>4
    <3> QED
      BY <1>1, <2>1, <2>2, <2>4, <3>1
  <2> QED
    BY <2>3, <2>4
<1>5. CASE Restart
  <2>1. rows' = rows /\ abandoned' = abandoned + Cardinality(Storing)
    BY <1>5 DEF Restart, storeVars
  <2> QED
    BY <1>0, <2>1, StoringIsFinite DEF Counting, Bounded
<1>6. ASSUME NEW w \in Writers, Stamp(w) \/ Prune(w) \/ DeleteOld(w) PROVE Counting'
  <2>1. rows' \subseteq rows /\ abandoned' = abandoned
    BY <1>6 DEF Stamp, Prune, DeleteOld, storeVars
  <2>2. Storing' = Storing
    BY <1>0, <1>6 DEF Stamp, Prune, DeleteOld, Storing
  <2> QED
    BY <1>1, <2>1, <2>2
<1>7. CASE SetClock \/ UNCHANGED vars
  BY <1>1, <1>7 DEF SetClock, vars, storeVars, Storing
<1> QED
  BY <1>2, <1>3, <1>4, <1>5, <1>6, <1>7 DEF Next

(* The table never holds more than MaxEvents rows, but for those of calls  *)
(* that are under way and of calls cut off since one last completed        *)
(* (sqlite.go:92-118): for any number of calls, failures and restarts.     *)
THEOREM TableIsBounded == Spec => []Bounded
<1>1. Counting => Bounded
  BY DEF Counting
<1> QED
  BY <1>1, InitCounted, StepCounted, InitCutting, StepCutting, InitCounting, StepCounting, PTL DEF Spec

-----------------------------------------------------------------------------
(* Listings. *)

Rank(r, of, order) == Cardinality({q \in of : <<q, r>> \in order})

(* Irreflexive, transitive, total. *)
Sorts(order, of) ==
  /\ \A p \in of : <<p, p>> \notin order
  /\ \A p, q, r \in of : <<p, q>> \in order /\ <<q, r>> \in order => <<p, r>> \in order
  /\ \A p, q \in of : p # q => <<p, q>> \in order \/ <<q, p>> \in order

(* The rows of a finite set are told apart by the number of those before. *)
LEMMA RanksAreExact ==
  ASSUME NEW of, IsFiniteSet(of), NEW order, Sorts(order, of)
  PROVE  /\ Cardinality(of) \in Nat
         /\ \A r \in of : Rank(r, of, order) \in 0 .. Cardinality(of) - 1
         /\ \A p, q \in of : <<p, q>> \in order => Rank(p, of, order) < Rank(q, of, order)
         /\ \A p, q \in of : Rank(p, of, order) = Rank(q, of, order) => p = q
         /\ \A k \in 0 .. Cardinality(of) - 1 : \E r \in of : Rank(r, of, order) = k
<1> DEFINE Before(r) == {q \in of : <<q, r>> \in order}
           rank == [r \in of |-> Rank(r, of, order)]
           Ranks == 0 .. Cardinality(of) - 1
<1>1. Cardinality(of) \in Nat
  BY FS_CardinalityType
<1>2. ASSUME NEW r \in of
      PROVE  /\ IsFiniteSet(Before(r)) /\ Cardinality(Before(r)) \in Nat
             /\ Cardinality(Before(r) \cup {r}) = Cardinality(Before(r)) + 1
  <2>1. IsFiniteSet(Before(r)) /\ r \notin Before(r)
    BY FS_Subset DEF Sorts
  <2> HIDE DEF Before
  <2> QED
    BY <2>1, FS_AddElement, FS_CardinalityType
<1>3. ASSUME NEW r \in of PROVE Rank(r, of, order) \in Ranks
  <2>1. Before(r) \cup {r} \in SUBSET of
    OBVIOUS
  <2> HIDE DEF Before
  <2>2. Cardinality(Before(r) \cup {r}) <= Cardinality(of)
    BY <2>1, FS_Subset
  <2>3. Rank(r, of, order) = Cardinality(Before(r))
    BY DEF Rank, Before
  <2> QED
    BY <1>1, <1>2, <2>2, <2>3
<1>4. ASSUME NEW p \in of, NEW q \in of, <<p, q>> \in order
      PROVE  Rank(p, of, order) < Rank(q, of, order)
  <2>1. Before(p) \cup {p} \in SUBSET Before(q)
    BY <1>4 DEF Sorts
  <2>2. /\ Rank(p, of, order) = Cardinality(Before(p))
        /\ Rank(q, of, order) = Cardinality(Before(q))
    BY DEF Rank
  <2> HIDE DEF Before
  <2>3. Cardinality(Before(p) \cup {p}) <= Cardinality(Before(q))
    BY <1>2, <2>1, FS_Subset
  <2>4. Cardinality(Before(p)) \in Nat /\ Cardinality(Before(p) \cup {p}) = Cardinality(Before(p)) + 1
    BY <1>2
  <2>5. Cardinality(Before(q)) \in Nat
    BY <1>2
  <2> QED
    BY <2>2, <2>3, <2>4, <2>5
<1>5. ASSUME NEW p \in of, NEW q \in of, Rank(p, of, order) = Rank(q, of, order) PROVE p = q
  <2>1. Rank(p, of, order) \in Int
    BY <1>1, <1>3
  <2>2. ~ (Rank(p, of, order) < Rank(q, of, order)) /\ ~ (Rank(q, of, order) < Rank(p, of, order))
    BY <1>5, <2>1
  <2> QED
    BY <1>4, <2>2 DEF Sorts
<1>6. rank \in Injection(of, Ranks)
  <2>1. rank \in [of -> Ranks]
    BY <1>3
  <2> QED
    BY <1>5, <2>1 DEF Injection, IsInjective
<1>7. IsFiniteSet(Ranks) /\ Cardinality(Ranks) = Cardinality(of)
  <2>1. PICK n \in Nat : n = Cardinality(of)
    BY <1>1
  <2>2. 0 \in Int /\ n - 1 \in Int
    BY <2>1
  <2>3. IsFiniteSet(0 .. n - 1) /\ Cardinality(0 .. n - 1) = IF 0 > n - 1 THEN 0 ELSE n - 1 - 0 + 1
    BY <2>2, FS_Interval, Zenon
  <2> QED
    BY <2>1, <2>3
<1>8. rank \in Surjection(of, Ranks)
  <2> HIDE DEF rank, Ranks
  <2> QED
    BY <1>6, <1>7, FS_Injection
<1>9. ASSUME NEW k \in Ranks PROVE \E r \in of : Rank(r, of, order) = k
  BY <1>8 DEF Surjection
<1> QED
  BY <1>1, <1>3, <1>4, <1>5, <1>9

LEMMA MinIs ==
  ASSUME NEW S \in SUBSET Int, NEW m \in S, \A n \in S : m <= n
  PROVE  Min(S) = m
<1>1. \A x \in S : (\A n \in S : x <= n) => x = m
  OBVIOUS
<1> QED
  BY <1>1 DEF Min

(* A listing has the first rows of the order, each before what follows or  *)
(* is left out.                                                            *)
LEMMA ListingIsSorted ==
  ASSUME NEW of, IsFiniteSet(of), NEW order, Sorts(order, of), NEW limit \in Nat \ {0}
  PROVE  LET list == Listing(of, order, limit)
         IN  /\ Len(list) = Cardinality(ToSet(list))
             /\ Len(list) = Min({limit, LargestLimit, Cardinality(of)})
             /\ \A i \in DOMAIN list : \A r \in of \ ToSet(SubSeq(list, 1, i)) :
                  list[i] \in of /\ <<list[i], r>> \in order
<1> DEFINE list == Listing(of, order, limit)
           size == Min({Clamped(limit), Cardinality(of)})
           rank(r) == Rank(r, of, order)
           row(i) == CHOOSE r \in of : rank(r) = i - 1
<1>1. /\ Cardinality(of) \in Nat
      /\ \A r \in of : rank(r) \in 0 .. Cardinality(of) - 1
      /\ \A p, q \in of : <<p, q>> \in order => rank(p) < rank(q)
      /\ \A p, q \in of : rank(p) = rank(q) => p = q
      /\ \A k \in 0 .. Cardinality(of) - 1 : \E r \in of : rank(r) = k
  BY RanksAreExact
<1>2. /\ size \in Nat /\ size <= Cardinality(of)
      /\ size = Min({limit, LargestLimit, Cardinality(of)})
  <2>1. PICK c : c = Cardinality(of)
    OBVIOUS
  <2>2. c \in Nat /\ LargestLimit \in Nat
    BY <1>1, <2>1, StoreAssumption
  <2>3. Clamped(limit) = IF limit > LargestLimit THEN LargestLimit ELSE limit
    BY DEF Clamped
  <2>4. PICK m \in {Clamped(limit), c} : m <= Clamped(limit) /\ m <= c
    BY <2>2, <2>3
  <2>5. m \in Nat /\ m \in {limit, LargestLimit, c} /\ m <= limit /\ m <= LargestLimit /\ m <= c
    BY <2>2, <2>3, <2>4
  <2>6. Min({Clamped(limit), c}) = m
    BY <2>2, <2>3, <2>4, MinIs
  <2>7. Min({limit, LargestLimit, c}) = m
    BY <2>2, <2>5, MinIs
  <2> QED
    BY <2>1, <2>5, <2>6, <2>7
<1>4. list = [i \in 1 .. size |-> row(i)]
  BY DEF Listing, Rank
<1> HIDE DEF size, rank, list
<1>3. ASSUME NEW i \in 1 .. size PROVE list[i] \in of /\ rank(list[i]) = i - 1
  <2>1. i - 1 \in 0 .. Cardinality(of) - 1
    BY <1>1, <1>2
  <2>2. \E r \in of : rank(r) = i - 1
    BY <1>1, <2>1
  <2>3. row(i) \in of /\ rank(row(i)) = i - 1
    BY <2>2
  <2> HIDE DEF row
  <2> QED
    BY <1>4, <2>3
<1> HIDE DEF row
<1>5. list \in Seq(of) /\ Len(list) = size /\ DOMAIN list = 1 .. size
  <2>1. list \in [1 .. size -> of]
    BY <1>3, <1>4
  <2> QED
    BY <1>2, <2>1
<1>6. Cardinality(ToSet(list)) = size
  <2>1. list \in Surjection(1 .. size, ToSet(list))
    BY <1>4, <1>5 DEF Surjection, ToSet
  <2>2. list \in Injection(1 .. size, ToSet(list))
    <3>1. ASSUME NEW i \in 1 .. size, NEW j \in 1 .. size, list[i] = list[j] PROVE i = j
      BY <1>2, <1>3, <3>1
    <3> QED
      BY <2>1, <3>1 DEF Injection, Surjection, IsInjective
  <2>3. IsFiniteSet(1 .. size) /\ Cardinality(1 .. size) = size
    <3>0. 1 \in Int /\ size \in Int
      BY <1>2
    <3>1. IsFiniteSet(1 .. size) /\ Cardinality(1 .. size) = IF 1 > size THEN 0 ELSE size - 1 + 1
      BY <3>0, FS_Interval, Zenon
    <3> QED
      BY <1>2, <3>1
  <2> QED
    BY <2>1, <2>2, <2>3, FS_Surjection
<1>7. ASSUME NEW i \in DOMAIN list, NEW r \in of \ ToSet(SubSeq(list, 1, i))
      PROVE  list[i] \in of /\ <<list[i], r>> \in order
  <2>1. i \in 1 .. size /\ list[i] \in of /\ rank(list[i]) = i - 1
    BY <1>3, <1>5
  <2>2. \A j \in 1 .. i : list[j] \in ToSet(SubSeq(list, 1, i))
    <3>1. DOMAIN SubSeq(list, 1, i) = 1 .. i /\ \A j \in 1 .. i : SubSeq(list, 1, i)[j] = list[j]
      BY <1>2, <1>5, <2>1
    <3> QED
      BY <3>1 DEF ToSet
  <2>3. ASSUME <<r, list[i]>> \in order PROVE FALSE
    <3>1. rank(r) \in Nat /\ rank(r) < i - 1
      BY <1>1, <2>1, <2>3
    <3>2. PICK j : j = rank(r) + 1
      OBVIOUS
    <3>3. j \in 1 .. i /\ j \in 1 .. size /\ rank(r) = j - 1
      BY <1>2, <2>1, <3>1, <3>2
    <3>4. list[j] \in of /\ rank(list[j]) = rank(r)
      BY <1>3, <3>3
    <3> QED
      BY <1>1, <2>2, <3>3, <3>4
  <2>4. i \in 1 .. i
    BY <1>2, <2>1
  <2>5. r # list[i]
    BY <2>2, <2>4
  <2> QED
    BY <2>1, <2>3, <2>5 DEF Sorts
<1> QED
  BY <1>2, <1>5, <1>6, <1>7 DEF list

(* Rows are ordered by their ids, and by the text of their timestamps.     *)
LEMMA RowsAreRows ==
  ASSUME Counted, Cutting
  PROVE  /\ \A r \in rows : r.id \in Int /\ r.at \in Int
         /\ \A p, q \in rows : p.id = q.id => p = q
<1>1. ASSUME NEW r \in rows
      PROVE  r.id \in DOMAIN stored /\ r = stored[r.id] /\ r.id \in Int /\ r.at \in Int
  <2>1. PICK i \in DOMAIN stored : r = stored[i]
    BY <1>1 DEF Cutting
  <2>2. stored[i] \in [ id: Nat, type: Types, at: Int ]
    <3> DEFINE Row == [ id: Nat, type: Types, at: Int ]
    <3>1. stored \in Seq(Row) /\ i \in 1 .. Len(stored)
      BY <2>1 DEF Counted
    <3> HIDE DEF Row
    <3>2. stored[i] \in Row
      BY <3>1
    <3> QED
      BY <3>2 DEF Row
  <2>3. stored[i].id = i
    BY <2>1 DEF Counted
  <2> QED
    BY <2>1, <2>2, <2>3
<1> QED
  BY <1>1

LEMMA TextIsOrdered ==
  /\ \A a \in Int : ~TextBefore(a, a)
  /\ \A a, b, c \in Int : TextBefore(a, b) /\ TextBefore(b, c) => TextBefore(a, c)
  /\ \A a, b \in Int : a # b => TextBefore(a, b) \/ TextBefore(b, a)
BY DEF TextBefore

LEMMA ByTimeListsNewest ==
  ASSUME Counted, Cutting, Counting, NEW types, NEW limit \in Nat \ {0}
  PROVE  NewestFirst(List(types, limit), OfTypes(types), limit, LAMBDA r, q : r.at <= q.at + 1)
<1> DEFINE of == OfTypes(types)
           order == ByTime(of)
           list == List(types, limit)
<1>1. /\ \A r \in of : r.id \in Int /\ r.at \in Int
      /\ \A p, q \in of : p.id = q.id => p = q
      /\ IsFiniteSet(of)
  BY RowsAreRows, FS_Subset DEF OfTypes, Counting
<1>2. ASSUME NEW p \in of, NEW q \in of
      PROVE  <<p, q>> \in order <=> TextBefore(q.at, p.at) \/ (p.at = q.at /\ p.id > q.id)
  <2>1. <<p, q>> \in of \X of /\ <<p, q>>[1] = p /\ <<p, q>>[2] = q
    OBVIOUS
  <2> HIDE DEF of
  <2> QED
    BY <2>1 DEF ByTime
<1>3. list = Listing(of, order, limit)
  BY DEF List
<1> HIDE DEF of, order, list
<1>4. \A p \in of : <<p, p>> \notin order
  BY <1>1, <1>2, TextIsOrdered
<1>5. ASSUME NEW p \in of, NEW q \in of, p # q PROVE <<p, q>> \in order \/ <<q, p>> \in order
  <2>1. CASE p.at = q.at
    <3>1. p.id > q.id \/ q.id > p.id
      BY <1>1, <1>5
    <3> QED
      BY <1>2, <2>1, <3>1
  <2>2. CASE p.at # q.at
    <3>1. TextBefore(p.at, q.at) \/ TextBefore(q.at, p.at)
      BY <1>1, <2>2, TextIsOrdered
    <3> QED
      BY <1>2, <3>1
  <2> QED
    BY <2>1, <2>2
<1>6. ASSUME NEW p \in of, NEW q \in of, NEW r \in of, <<p, q>> \in order, <<q, r>> \in order
      PROVE  <<p, r>> \in order
  BY <1>1, <1>2, <1>6, TextIsOrdered
<1>7. /\ Len(list) = Cardinality(ToSet(list))
      /\ Len(list) = Min({limit, LargestLimit, Cardinality(of)})
      /\ \A i \in DOMAIN list : \A r \in of \ ToSet(SubSeq(list, 1, i)) :
           list[i] \in of /\ <<list[i], r>> \in order
  BY <1>1, <1>3, <1>4, <1>5, <1>6, ListingIsSorted DEF Sorts
<1>8. ASSUME NEW p \in of, NEW q \in of, <<p, q>> \in order PROVE q.at <= p.at + 1
  BY <1>1, <1>2, <1>8 DEF TextBefore
<1> QED
  BY <1>7, <1>8 DEF NewestFirst, of, list

LEMMA ByIdListsNewest ==
  ASSUME Counted, Cutting, Counting, NEW limit \in Nat \ {0}
  PROVE  NewestFirst(ListAudit(limit), rows, limit, LAMBDA r, q : r.id < q.id)
<1> DEFINE order == ById(rows)
           list == ListAudit(limit)
<1>1. /\ \A r \in rows : r.id \in Int
      /\ \A p, q \in rows : p.id = q.id => p = q
      /\ IsFiniteSet(rows)
  BY RowsAreRows DEF Counting
<1>2. \A p, q \in rows : <<p, q>> \in order <=> p.id > q.id
  BY DEF ById
<1>3. list = Listing(rows, order, limit)
  BY DEF ListAudit
<1> HIDE DEF order, list
<1>4. Sorts(order, rows)
  BY <1>1, <1>2 DEF Sorts
<1>5. /\ Len(list) = Cardinality(ToSet(list))
      /\ Len(list) = Min({limit, LargestLimit, Cardinality(rows)})
      /\ \A i \in DOMAIN list : \A r \in rows \ ToSet(SubSeq(list, 1, i)) :
           list[i] \in rows /\ <<list[i], r>> \in order
  BY <1>1, <1>3, <1>4, ListingIsSorted
<1>6. ASSUME NEW p \in rows, NEW q \in rows, <<p, q>> \in order PROVE q.id < p.id
  BY <1>1, <1>2, <1>6
<1> QED
  BY <1>5, <1>6 DEF NewestFirst, list

(* ListedNewestFirst of EventStore: whatever was stored and pruned, and     *)
(* however the clock was set, a listing holds as many rows as asked for,    *)
(* the newest ones, newest first (sqlite.go:125-173, audit.go:108-149).     *)
THEOREM ListingsAreNewest == Spec => []ListedNewestFirst
<1>1. Counted /\ Cutting /\ Counting => ListedNewestFirst
  <2> SUFFICES ASSUME Counted, Cutting, Counting, NEW limit \in 1 .. LargestLimit + 1
               PROVE  /\ \A types \in {Types} \cup {{t} : t \in Types} :
                           NewestFirst(List(types, limit), OfTypes(types), limit,
                                       LAMBDA r, q : r.at <= q.at + 1)
                      /\ NewestFirst(ListAudit(limit), rows, limit, LAMBDA r, q : r.id < q.id)
    BY DEF ListedNewestFirst
  <2>1. limit \in Nat \ {0}
    BY StoreAssumption
  <2> QED
    BY <2>1, ByTimeListsNewest, ByIdListsNewest
<1> QED
  BY <1>1, InitCounted, StepCounted, InitCutting, StepCutting, InitCounting, StepCounting, PTL DEF Spec

-----------------------------------------------------------------------------
(* The types. *)

(* TypeOK but for the calls cut off; a row gets an instant of the clock.   *)
Shapes ==
  /\ rows \subseteq Rows
  /\ seq \in Nat /\ seq <= MaxInserts
  /\ clock \in Instants
  /\ pc \in [Writers -> {"idle", "insert", "prune", "old", "surplus"}]
  /\ instant \in [Writers -> -MaxAge .. MaxClock]
  /\ stored \in Seq(Rows)
  /\ latest \in Instants
  /\ \A w \in Writers : pc[w] = "insert" => instant[w] \in Instants

(* A call that has stored its row is under way or was cut off, not both.   *)
CountedOnce == abandoned \in Nat /\ abandoned + Cardinality(Storing) <= seq

LEMMA TypesInit == Init => Shapes /\ CountedOnce
<1> SUFFICES ASSUME Init PROVE Shapes /\ CountedOnce
  OBVIOUS
<1>1. Shapes
  BY StoreAssumption DEF Init, Shapes, Instants
<1>2. abandoned = 0 /\ seq = 0 /\ Storing = {}
  BY DEF Init, Storing
<1> QED
  BY <1>1, <1>2, FS_EmptySet DEF CountedOnce

LEMMA ShapesStep == Counted /\ Shapes /\ [Next]_vars => Shapes'
<1> SUFFICES ASSUME Counted, Shapes, [Next]_vars PROVE Shapes'
  OBVIOUS
<1> USE StoreAssumption DEF Shapes
<1>0. /\ 0 \in -MaxAge .. MaxClock /\ Instants \subseteq -MaxAge .. MaxClock
      /\ \A t \in Instants : Cutoff(t) \in -MaxAge .. MaxClock
  BY DEF Instants, Cutoff
<1>1. ASSUME NEW w \in Writers, Stamp(w) PROVE Shapes'
  BY <1>0, <1>1 DEF Stamp, storeVars
<1>2. ASSUME NEW w \in Writers, Insert(w) PROVE Shapes'
  <2>1. PICK row : /\ rows' = rows \cup {row} /\ stored' = Append(stored, row)
                   /\ \E t \in Types : row = [ id |-> NextId, type |-> t, at |-> instant[w] ]
    BY <1>2 DEF Insert
  <2>2. seq + 1 \in 1 .. MaxInserts /\ NextId = seq + 1
    BY <1>2 DEF Insert, Counted, NextId
  <2>3. row \in Rows
    BY <1>2, <2>1, <2>2 DEF Insert, Rows
  <2>4. stored' \in Seq(Rows)
    <3> HIDE DEF Rows
    <3> QED
      BY <2>1, <2>3
  <2>5. seq' = seq + 1 /\ seq + 1 \in Nat /\ seq + 1 <= MaxInserts
    BY <1>2, <2>2 DEF Insert
  <2> QED
    BY <1>2, <2>1, <2>3, <2>4, <2>5 DEF Insert
<1>3. ASSUME NEW w \in Writers, Prune(w) PROVE Shapes'
  BY <1>0, <1>3 DEF Prune, storeVars
<1>4. ASSUME NEW w \in Writers, DeleteOld(w) PROVE Shapes'
  BY <1>4 DEF DeleteOld
<1>5. ASSUME NEW w \in Writers, DeleteSurplus(w) PROVE Shapes'
  BY <1>0, <1>5 DEF DeleteSurplus, Newest
<1>6. ASSUME NEW w \in Writers, Fail(w) PROVE Shapes'
  BY <1>0, <1>6 DEF Fail, storeVars
<1>7. CASE Restart
  BY <1>0, <1>7 DEF Restart, storeVars
<1>8. CASE SetClock
  BY <1>8 DEF SetClock, storeVars
<1>9. CASE UNCHANGED vars
  BY <1>9 DEF vars
<1> QED
  BY <1>1, <1>2, <1>3, <1>4, <1>5, <1>6, <1>7, <1>8, <1>9 DEF Next

LEMMA CountedOnceStep ==
  Shapes /\ CountedOnce /\ [Next]_vars => CountedOnce'
<1> SUFFICES ASSUME Shapes, CountedOnce, [Next]_vars PROVE CountedOnce'
  OBVIOUS
<1>0. /\ pc \in [Writers -> {"idle", "insert", "prune", "old", "surplus"}]
      /\ seq \in Nat /\ abandoned \in Nat
      /\ abandoned + Cardinality(Storing) <= seq
  BY DEF Shapes, CountedOnce
<1>1. CASE Storing' = Storing /\ UNCHANGED <<abandoned, seq>>
  BY <1>0, <1>1, StoringIsFinite DEF CountedOnce
<1>2. ASSUME NEW w \in Writers, Insert(w) PROVE CountedOnce'
  <2>1. w \notin Storing /\ Storing' = Storing \cup {w} /\ abandoned' = abandoned /\ seq' = seq + 1
    BY <1>0, <1>2 DEF Insert, Storing, NextId
  <2>2. Cardinality(Storing') = Cardinality(Storing) + 1
    BY <2>1, StoringIsFinite, FS_AddElement
  <2> QED
    BY <1>0, <2>1, <2>2, StoringIsFinite DEF CountedOnce
<1>3. ASSUME NEW w \in Writers, DeleteSurplus(w) PROVE CountedOnce'
  <2>1. Storing' = Storing \ {w} /\ w \in Storing /\ abandoned' = 0 /\ seq' = seq
    BY <1>0, <1>3 DEF DeleteSurplus, Storing
  <2>2. Cardinality(Storing') = Cardinality(Storing) - 1
    BY <2>1, StoringIsFinite, FS_RemoveElement
  <2> QED
    BY <1>0, <2>1, <2>2, StoringIsFinite DEF CountedOnce
<1>4. ASSUME NEW w \in Writers, Fail(w) PROVE CountedOnce'
  <2>1. Storing' = Storing \ {w} /\ seq' = seq
    BY <1>0, <1>4 DEF Fail, Storing, storeVars
  <2>2. abandoned' = IF w \in Storing THEN abandoned + 1 ELSE abandoned
    BY <1>4 DEF Fail
  <2>3. Cardinality(Storing') = IF w \in Storing THEN Cardinality(Storing) - 1 ELSE Cardinality(Storing)
    BY <2>1, StoringIsFinite, FS_RemoveElement
  <2> QED
    BY <1>0, <2>1, <2>2, <2>3, StoringIsFinite DEF CountedOnce
<1>5. CASE Restart
  <2>1. Storing' = {} /\ abandoned' = abandoned + Cardinality(Storing) /\ seq' = seq
    BY <1>5 DEF Restart, Storing, storeVars
  <2> QED
    BY <1>0, <2>1, StoringIsFinite, FS_EmptySet DEF CountedOnce
<1>6. ASSUME NEW w \in Writers, Stamp(w) \/ Prune(w) \/ DeleteOld(w) PROVE CountedOnce'
  <2>1. UNCHANGED <<abandoned, seq>>
    BY <1>6 DEF Stamp, Prune, DeleteOld, storeVars
  <2>2. Storing' = Storing
    BY <1>0, <1>6 DEF Stamp, Prune, DeleteOld, Storing
  <2> QED
    BY <1>1, <2>1, <2>2
<1>7. CASE SetClock \/ UNCHANGED vars
  BY <1>1, <1>7 DEF SetClock, vars, storeVars, Storing
<1> QED
  BY <1>2, <1>3, <1>4, <1>5, <1>6, <1>7 DEF Next

(* TypeOK of EventStore: the row of every call that is cut off is counted   *)
(* once, and the instant of a row is one of the clock, never a cutoff.      *)
THEOREM TypeCorrect == Spec => []TypeOK
<1>1. Shapes /\ CountedOnce => TypeOK
  <2> SUFFICES ASSUME Shapes, CountedOnce PROVE TypeOK
    OBVIOUS
  <2>1. abandoned \in 0 .. MaxInserts /\ seq \in 0 .. MaxInserts
    BY StoringIsFinite, StoreAssumption DEF Shapes, CountedOnce
  <2> QED
    BY <2>1 DEF Shapes, TypeOK
<1> QED
  BY <1>1, InitCounted, StepCounted, TypesInit, ShapesStep, CountedOnceStep, PTL DEF Spec
=============================================================================
