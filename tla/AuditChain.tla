----------------------------- MODULE AuditChain ------------------------------
(***************************************************************************)
(* The hash chain of tool_call_audit_events: AuditService.record and       *)
(* verify_integrity (audit/service.py) over AuditEventRepository           *)
(* (persistence/repositories.py).                                          *)
(*                                                                         *)
(* The chain is the order (timestamp, event_id): record reads the greatest *)
(* row and links the new one to it, verify_integrity walks all rows in     *)
(* that order.  event_id is random, so a tie of the clock is broken by     *)
(* chance, and the timestamp is the wall clock, read after the last row.   *)
(***************************************************************************)
EXTENDS Naturals, FiniteSets

CONSTANTS Writers,      \* threads that record events
          MaxEvents,    \* bound on the rows ever inserted
          MaxTime,      \* bound on the clock
          Bodies,       \* what an event says, all hashed fields but the ones below
          Ties,         \* whether two events may get the same timestamp
          StepsBack,    \* whether the wall clock may be set back
          MaxTampers    \* bound on direct changes of the table

Ids == 1..MaxEvents     \* the random event_id, as the order sees it

ASSUME ChainAssumption ==
  MaxEvents \in Nat /\ MaxTime \in Nat /\ {Ties, StepsBack} \subseteq BOOLEAN /\ MaxTampers \in Nat

VARIABLES rows,      \* the table: id, time, body, prev and hash of each event
          now,       \* the wall clock
          stage,     \* each writer is "idle" or has "read" the last event
          previous,  \* the hash each writer will link to, NoHash in an empty log
          used,      \* ids already drawn
          tampered,  \* history: how often the table was changed directly,
          change     \* and what the last direct change was

\* The previous hash of a first row: NULL, which is no hash.
NoHash == << >>

vars == <<rows, now, stage, previous, used, tampered, change>>

Unchanged == [kind |-> "none"]

TypeOK ==
  /\ \A e \in rows : e.id \in used /\ e.time \in 0..MaxTime /\ e.body \in Bodies
  /\ now \in 0..MaxTime
  /\ stage \in [Writers -> {"idle", "read"}]
  /\ DOMAIN previous = Writers
  /\ used \subseteq Ids
  /\ tampered \in 0..MaxTampers
  /\ change.kind \in IF tampered = 0 THEN {"none"} ELSE {"modified", "deleted"}
  /\ tampered > 0 => {change.row.id, change.became.id} \subseteq used

Init == /\ rows = {}
        /\ now = 0
        /\ stage = [w \in Writers |-> "idle"]
        /\ previous = [w \in Writers |-> NoHash]
        /\ used = {}
        /\ tampered = 0
        /\ change = Unchanged

-----------------------------------------------------------------------------
(* Order and hash *)

\* ORDER BY timestamp, event_id.
Before(e, f) == e.time < f.time \/ (e.time = f.time /\ e.id < f.id)

\* Mutant: the last event by event_id only.
IsLastById(e) == \A f \in rows : f # e => f.id < e.id

\* last_chain_event: the greatest row.
IsLast(e) == \A f \in rows : f # e => Before(f, e)

\* Mutants: a field is missing from the hashed payload.
HashWithoutBody(id, time, body, prev) == <<id, time, prev>>
HashWithoutTime(id, time, body, prev) == <<id, body, prev>>

\* event_hash: SHA-256 of the canonical fields, so equal only for equal fields.
EventHash(id, time, body, prev) == <<id, time, body, prev>>

-----------------------------------------------------------------------------
(* AuditService.verify_integrity *)

ImmediatelyBefore(p, e) ==
  Before(p, e) /\ ~\E f \in rows : Before(p, f) /\ Before(f, e)

\* What the walk expects in previous_record_hash when it reaches a row.
Linked(e) ==
  \/ e.prev = NoHash /\ ~\E p \in rows : Before(p, e)
  \/ \E p \in rows : ImmediatelyBefore(p, e) /\ e.prev = p.hash

\* Mutant: the walk follows the links and does not hash the rows again.
RowLinked(e) == Linked(e)

Hashed(e) == e.hash = EventHash(e.id, e.time, e.body, e.prev)
RowValid(e) == Linked(e) /\ Hashed(e)

VerifyIntegrity == \A e \in rows : RowValid(e)

\* first_invalid_event_id: the walk stops at the first row that fails.
FirstInvalid(e) == ~RowValid(e) /\ \A f \in rows : Before(f, e) => RowValid(f)

-----------------------------------------------------------------------------
(* AuditService.record, one transaction of two statements *)

ReadLast(w) ==
  /\ stage[w] = "idle"
  /\ \/ rows = {} /\ previous' = [previous EXCEPT ![w] = NoHash]
     \/ \E e \in rows : IsLast(e) /\ previous' = [previous EXCEPT ![w] = e.hash]
  /\ stage' = [stage EXCEPT ![w] = "read"]
  /\ UNCHANGED <<rows, now, used, tampered, change>>

\* Mutant: event_id is not unique.
InsertAnyId(w) ==
  /\ stage[w] = "read"
  /\ Ties \/ \A e \in rows : e.time # now
  /\ \E id \in Ids \ used, b \in Bodies :
       rows' = rows \cup
         {[id |-> id, time |-> now, body |-> b, prev |-> previous[w],
           hash |-> EventHash(id, now, b, previous[w])]}
  /\ stage' = [stage EXCEPT ![w] = "idle"]
  /\ UNCHANGED <<now, previous, used, tampered, change>>

\* The timestamp is taken after the read; the insert commits with it.
Insert(w) ==
  /\ stage[w] = "read"
  /\ Ties \/ \A e \in rows : e.time # now
  /\ \E id \in Ids \ used, b \in Bodies :
       /\ rows' = rows \cup
            {[id |-> id, time |-> now, body |-> b, prev |-> previous[w],
              hash |-> EventHash(id, now, b, previous[w])]}
       /\ used' = used \cup {id}
  /\ stage' = [stage EXCEPT ![w] = "idle"]
  /\ UNCHANGED <<now, previous, tampered, change>>

\* The transaction is rolled back, by an error or a crash.
Abort(w) ==
  /\ stage[w] = "read"
  /\ stage' = [stage EXCEPT ![w] = "idle"]
  /\ UNCHANGED <<rows, now, previous, used, tampered, change>>

-----------------------------------------------------------------------------
(* The clock and the hands of others *)

\* Time passes; where it may, the wall clock is set back.
ClockMoves(t) == /\ t # now
                 /\ t < now => StepsBack
                 /\ now' = t
                 /\ UNCHANGED <<rows, stage, previous, used, tampered, change>>

\* What is remembered of a direct change: the row as it was and as it is, whether
\* another row came after it, and whether the log was valid before.
Changes(kind, e, f) ==
  /\ tampered < MaxTampers
  /\ tampered' = tampered + 1
  /\ change' = [kind |-> kind, row |-> e, became |-> f,
                followed |-> \E g \in rows : Before(e, g), valid |-> VerifyIntegrity]

Stored == {e.hash : e \in rows}

\* Someone edits a row of the table: any of its columns, the ones that order it
\* and its hash included, which may be computed anew for what the row now says.
Modify(e) ==
  \E id \in Ids \ {g.id : g \in rows \ {e}}, time \in 0..MaxTime,
     body \in Bodies, prev \in {NoHash} \cup Stored :
  \E hash \in Stored \cup {EventHash(id, time, body, prev)} :
    LET f == [id |-> id, time |-> time, body |-> body, prev |-> prev, hash |-> hash]
    IN /\ f # e
       /\ rows' = (rows \ {e}) \cup {f}
       /\ used' = used \cup {id}
       /\ Changes("modified", e, f)
       /\ UNCHANGED <<now, stage, previous>>

\* Someone deletes a row of the table.
Delete(e) ==
  /\ rows' = rows \ {e}
  /\ Changes("deleted", e, e)
  /\ UNCHANGED <<now, stage, previous, used>>

Next == \/ \E w \in Writers : ReadLast(w) \/ Insert(w) \/ Abort(w)
        \/ \E t \in 0..MaxTime : ClockMoves(t)
        \/ \E e \in rows : Delete(e) \/ Modify(e)

Spec == Init /\ [][Next]_vars

-----------------------------------------------------------------------------
(* Properties *)

\* A log nobody touched verifies as valid, at any moment and through aborted
\* writes: no false alarm (audit/service.py:112 against :142).
UntamperedIsValid == tampered = 0 => VerifyIntegrity

\* Of one direct change that leaves timestamp and event_id, the walk names the
\* right row, however many events follow: the edited one; the next one when the
\* row is deleted, or is edited and its hash computed anew.  Such a change of the
\* newest row leaves no trace (audit/service.py:145).
NextRow(t, e) == Before(t, e) /\ \A f \in rows : Before(t, f) /\ f # e => Before(e, f)
InPlace == <<change.became.id, change.became.time>> = <<change.row.id, change.row.time>>
Fitting == change.kind = "deleted" \/ (Hashed(change.became) /\ change.became.prev = change.row.prev)
TamperingIsFound ==
  tampered = 1 /\ InPlace =>
    \/ Fitting /\ ~change.followed
    \/ \E e \in rows : /\ FirstInvalid(e)
                       /\ IF Fitting THEN NextRow(change.row, e) ELSE e = change.became

\* One direct change of any column, or a deletion, makes a valid log invalid for
\* good when a later row links to what was changed, whatever the clock does and
\* however many threads record: the timestamp, event_id or hash may be edited too
\* (audit/service.py:145).
ChangeIsFound == tampered = 1 /\ change.valid /\ change.followed => ~VerifyIntegrity

\* Whatever the clock does and however many threads record, a row edited in any
\* columns but its hash, the newest row too, is never vouched for.  An edit that
\* computes the hash anew is found by the next row only (audit/service.py:145).
EditIsNeverValid ==
  tampered = 1 /\ change.kind = "modified" /\ change.became.hash = change.row.hash
    => ~VerifyIntegrity
=============================================================================
