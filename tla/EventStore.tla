----------------------------- MODULE EventStore -----------------------------
(***************************************************************************)
(* One of the two bounded tables of internal/storage: events, written by   *)
(* the hook of the power watcher, or audit_events, written by the HTTP     *)
(* requests.  Insert (InsertAudit) runs three statements, each its own     *)
(* transaction: INSERT, DELETE of what is too old, DELETE of what is too   *)
(* much.  The tables share one connection, so statements of concurrent     *)
(* calls interleave whole; a call may also fail at each of them, because   *)
(* the client of the request went away, or end with the process.           *)
(*                                                                         *)
(* Instants are half seconds of the wall clock, which may be set back:     *)
(* timestamps are stored and compared as RFC3339Nano text, in which a      *)
(* whole second ("05Z") sorts after its own fractions ("05.5Z").           *)
(***************************************************************************)
EXTENDS Integers, FiniteSets, Sequences, SequencesExt

CONSTANTS
  Writers,       (* calls of Insert in flight at the same time             *)
  Types,         (* event types                                            *)
  MaxEvents,     (* MaxEvents, MaxAuditEvents                              *)
  MaxAge,        (* MaxAge, MaxAuditAge, in half seconds                   *)
  DefaultLimit,  (* rows of a listing that names no limit                  *)
  LargestLimit,  (* rows of the longest listing                            *)
  MaxInserts,    (* bound: rows ever stored                                *)
  MaxClock       (* bound: the last instant                                *)

ASSUME StoreAssumption ==
  /\ IsFiniteSet(Writers)
  /\ {MaxEvents, MaxAge, DefaultLimit, LargestLimit} \subseteq Nat \ {0}
  /\ DefaultLimit <= LargestLimit
  /\ {MaxInserts, MaxClock} \subseteq Nat

VARIABLES
  rows,      (* the table                                                  *)
  seq,       (* sqlite_sequence: the last id AUTOINCREMENT gave            *)
  clock,     (* wall clock                                                 *)
  pc,        (* the statement each call runs next                          *)
  instant,   (* the timestamp of its row, later the cutoff of its prune    *)
  stored,    (* history: the rows stored so far, in this order             *)
  latest,    (* history: the latest instant the clock has shown            *)
  abandoned  (* history: rows stored since the last complete call by calls *)
             (* that ended before their second DELETE                      *)

storeVars == <<rows, seq>>
vars == <<rows, seq, clock, pc, instant, stored, latest, abandoned>>

Instants == 0 .. MaxClock

Rows == [ id: 1 .. MaxInserts, type: Types, at: Instants ]

Init ==
  /\ rows = {}
  /\ seq = 0
  /\ clock \in Instants
  /\ pc = [w \in Writers |-> "idle"]
  /\ instant = [w \in Writers |-> 0]
  /\ stored = <<>>
  /\ latest = clock
  /\ abandoned = 0

-----------------------------------------------------------------------------
(* What SQLite makes of the queries. *)

(* Order of two timestamps as text. *)
TextBefore(a, b) ==
  \/ a \div 2 < b \div 2
  \/ /\ a \div 2 = b \div 2
     /\ a % 2 = 1
     /\ b % 2 = 0

(* Mutant: INTEGER PRIMARY KEY without AUTOINCREMENT. *)
NextRowId == IF rows = {} THEN 1 ELSE 1 + Max({r.id : r \in rows})

NextId == seq + 1

NewerThan(r) == {q \in rows : q.id > r.id}

(* Mutant: the newest by timestamp are kept, not the last stored. *)
NewestByTime ==
  {r \in rows : Cardinality({q \in rows : TextBefore(r.at, q.at)}) < MaxEvents}

(* Mutant: one row too many is kept. *)
OneTooMany == {r \in rows : Cardinality(NewerThan(r)) <= MaxEvents}

(* SELECT id ... ORDER BY id DESC LIMIT MaxEvents *)
Newest == {r \in rows : Cardinality(NewerThan(r)) < MaxEvents}

-----------------------------------------------------------------------------
(* Insert and InsertAudit. *)

(* An audit row is stamped by the call, an event by the watcher before it. *)
Stamp(w) ==
  /\ pc[w] = "idle"
  /\ instant' = [instant EXCEPT ![w] = clock]
  /\ pc' = [pc EXCEPT ![w] = "insert"]
  /\ UNCHANGED <<storeVars, clock, stored, latest, abandoned>>

(* INSERT *)
Insert(w) ==
  /\ pc[w] = "insert"
  /\ Len(stored) < MaxInserts
  /\ \E t \in Types :
       LET row == [ id |-> NextId, type |-> t, at |-> instant[w] ]
       IN  /\ rows' = rows \cup {row}
           /\ stored' = Append(stored, row)
  /\ seq' = NextId
  /\ pc' = [pc EXCEPT ![w] = "prune"]
  /\ UNCHANGED <<clock, instant, latest, abandoned>>

Cutoff(now) == now - MaxAge

Prune(w) ==
  /\ pc[w] = "prune"
  /\ instant' = [instant EXCEPT ![w] = Cutoff(clock)]
  /\ pc' = [pc EXCEPT ![w] = "old"]
  /\ UNCHANGED <<storeVars, clock, stored, latest, abandoned>>

DeleteOld(w) ==
  /\ pc[w] = "old"
  /\ rows' = {r \in rows : ~TextBefore(r.at, instant[w])}
  /\ pc' = [pc EXCEPT ![w] = "surplus"]
  /\ UNCHANGED <<seq, clock, instant, stored, latest, abandoned>>

(* The call returns. *)
DeleteSurplus(w) ==
  /\ pc[w] = "surplus"
  /\ rows' = Newest
  /\ pc' = [pc EXCEPT ![w] = "idle"]
  /\ instant' = [instant EXCEPT ![w] = 0]
  /\ abandoned' = 0
  /\ UNCHANGED <<seq, clock, stored, latest>>

(* Calls between their INSERT and their last DELETE. *)
Storing == {w \in Writers : pc[w] \in {"prune", "old", "surplus"}}

(* A statement fails: Insert returns the error; a row stored before stays. *)
Fail(w) ==
  /\ pc[w] \in {"insert", "old", "surplus"}
  /\ pc' = [pc EXCEPT ![w] = "idle"]
  /\ instant' = [instant EXCEPT ![w] = 0]
  /\ abandoned' = IF w \in Storing THEN abandoned + 1 ELSE abandoned
  /\ UNCHANGED <<storeVars, clock, stored, latest>>

(* The process ends and starts again: Open creates what is not there. *)
Restart ==
  /\ \E w \in Writers : pc[w] # "idle"
  /\ pc' = [w \in Writers |-> "idle"]
  /\ instant' = [w \in Writers |-> 0]
  /\ abandoned' = abandoned + Cardinality(Storing)
  /\ UNCHANGED <<storeVars, clock, stored, latest>>

(* Time passes, or the clock is set. *)
SetClock ==
  /\ clock' \in Instants \ {clock}
  /\ latest' = IF clock' > latest THEN clock' ELSE latest
  /\ UNCHANGED <<storeVars, pc, instant, stored, abandoned>>

Next ==
  \/ \E w \in Writers :
       \/ Stamp(w)
       \/ Insert(w)
       \/ Prune(w)
       \/ DeleteOld(w)
       \/ DeleteSurplus(w)
       \/ Fail(w)
  \/ Restart
  \/ SetClock

Spec == Init /\ [][Next]_vars

-----------------------------------------------------------------------------
(* List and ListAudit, one SELECT each. *)

Clamped(limit) ==
  IF limit <= 0 THEN DefaultLimit
  ELSE IF limit > LargestLimit THEN LargestLimit ELSE limit

(* What an ORDER BY sorts by: the pairs of rows in the order they come. *)
ById(of) == {p \in of \X of : p[1].id > p[2].id}

ByTime(of) ==
  {p \in of \X of : \/ TextBefore(p[2].at, p[1].at)
                    \/ p[1].at = p[2].at /\ p[1].id > p[2].id}

(* ORDER BY order LIMIT limit: the i-th row has i - 1 rows before it. *)
Listing(of, order, limit) ==
  [i \in 1 .. Min({Clamped(limit), Cardinality(of)}) |->
     CHOOSE r \in of : Cardinality({q \in of : <<q, r>> \in order}) = i - 1]

OfTypes(types) == {r \in rows : r.type \in types}

(* Mutant: the newest stored first. *)
ListById(types, limit) == Listing(OfTypes(types), ById(OfTypes(types)), limit)

(* ORDER BY timestamp DESC, id DESC LIMIT ? *)
List(types, limit) == Listing(OfTypes(types), ByTime(OfTypes(types)), limit)

(* ORDER BY id DESC LIMIT ? *)
ListAudit(limit) == Listing(rows, ById(rows), limit)

-----------------------------------------------------------------------------
(* Properties. *)

(* Every variable keeps its type; ids come from the sequence. *)
TypeOK ==
  /\ rows \subseteq Rows
  /\ seq \in 0 .. MaxInserts
  /\ clock \in Instants
  /\ pc \in [Writers -> {"idle", "insert", "prune", "old", "surplus"}]
  /\ instant \in [Writers -> -MaxAge .. MaxClock]
  /\ stored \in Seq(Rows)
  /\ latest \in Instants
  /\ abandoned \in 0 .. MaxInserts

(* The table holds no more than MaxEvents rows, and one for each call that *)
(* is still between its INSERT and its last DELETE or that ended there     *)
(* since a call last completed: the audit log is bounded (README.md:513)   *)
(* however calls overlap, fail or are cut off.                             *)
Bounded == Cardinality(rows) <= MaxEvents + Cardinality(Storing) + abandoned

(* A stored row is still there, or it was a second less than MaxAge old by *)
(* some reading of the clock, or MaxEvents rows were stored after it.      *)
(* Neither a clock that is set back nor another call's prune loses it.     *)
RecentKept ==
  \A i \in DOMAIN stored :
    \/ stored[i] \in rows
    \/ stored[i].at <= latest - MaxAge + 1
    \/ Len(stored) - i >= MaxEvents

(* An id is never given twice, whatever was pruned: the order of ids is    *)
(* the order in which rows were stored.                                    *)
IdsNeverReused ==
  \A i, j \in DOMAIN stored : i < j => stored[i].id < stored[j].id

(* A listing of `of`, no longer than asked for or allowed, whose every row *)
(* stands before those it is newer than.                                   *)
NewestFirst(list, of, limit, NotAfter(_, _)) ==
  /\ Len(list) = Cardinality(ToSet(list))
  /\ Len(list) = Min({limit, LargestLimit, Cardinality(of)})
  /\ \A i \in DOMAIN list : \A r \in of \ ToSet(SubSeq(list, 1, i)) :
       NotAfter(r, list[i])

(* GET /api/v1/events answers with the newest rows, newest first, as far   *)
(* as the text of their timestamps tells: no row listed later or left out  *)
(* is newer by more than the second in which text order is not time order. *)
(* The audit log is listed by the order in which it was written.           *)
ListedNewestFirst ==
  \A limit \in 1 .. LargestLimit + 1 :
    /\ \A types \in {Types} \cup {{t} : t \in Types} :
         NewestFirst(List(types, limit), OfTypes(types), limit,
                     LAMBDA r, q : r.at <= q.at + 1)
    /\ NewestFirst(ListAudit(limit), rows, limit, LAMBDA r, q : r.id < q.id)
=============================================================================
