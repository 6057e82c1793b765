---------------------------- MODULE AuditQueries -----------------------------
(***************************************************************************)
(* GET /v1/audit/events while events are recorded: AuditEventRepository    *)
(* .list_events (persistence/repositories.py) behind api/audit_routes.py.  *)
(*                                                                         *)
(* An auditor reads the log from its newest event, one page per request    *)
(* and per SELECT, by a growing OFFSET, until a page is not full.  The     *)
(* table, its writers and its clock are those of AuditChain: the rows move *)
(* under the reader, and not only at the head, for the clock may be set    *)
(* back.                                                                   *)
(***************************************************************************)
EXTENDS AuditChain, Integers

CONSTANTS Limits,  \* page sizes asked for
          None

ASSUME LimitAssumption == Limits \subseteq 1..200

VARIABLES query,   \* the request that is repeated: its stage, filter, limit and offset
          owed     \* history: ids in the log when it began that no page has shown

reading == <<query, owed>>

\* The reader's variables have their types: an offset is never negative, and what
\* is owed was once in the log.
QTypeOK ==
  /\ query \in [stage : {"idle", "paging", "done"}, filter : Bodies \cup {None},
                limit : Limits \cup {0}, offset : Nat]
  /\ owed \subseteq used

QInit == /\ Init
         /\ query = [stage |-> "idle", filter |-> None, limit |-> 0, offset |-> 0]
         /\ owed = {}

\* The WHERE clause: each filter that is given equals its column.
Matching(filter) == {e \in rows : filter # None => e.body = filter}

\* Newest first: how many rows come before e in the list of its query.
Rank(e, filter) == Cardinality({f \in Matching(filter) : Before(e, f)})

\* OFFSET and LIMIT.
Page == {e \in Matching(query.filter) :
           Rank(e, query.filter) \in query.offset..(query.offset + query.limit - 1)}

-----------------------------------------------------------------------------
\* Mutant: the first page is reached by subtracting a page from no offset.
StartQueryBefore(filter, limit) ==
  /\ query.stage = "idle"
  /\ query' = [stage |-> "paging", filter |-> filter, limit |-> limit, offset |-> -limit]
  /\ owed' = {e.id : e \in Matching(filter)}
  /\ UNCHANGED vars

\* The first request, with offset 0; offset and limit are checked by Query(ge, le).
StartQuery(filter, limit) ==
  /\ query.stage = "idle"
  /\ query' = [stage |-> "paging", filter |-> filter, limit |-> limit, offset |-> 0]
  /\ owed' = {e.id : e \in Matching(filter)}
  /\ UNCHANGED vars

\* What the reader does with a page: it asks for the next one if this was full.
Show(page) ==
  /\ owed' = owed \ {e.id : e \in page}
  /\ query' = IF Cardinality(page) < query.limit
                THEN [query EXCEPT !.stage = "done", !.filter = None, !.limit = 0, !.offset = 0]
                ELSE [query EXCEPT !.offset = @ + query.limit]

\* Mutant: ORDER BY timestamp alone, so rows of one instant come in any order,
\* another one for each SELECT.
ReadPageByTime ==
  /\ query.stage = "paging"
  /\ LET all == Matching(query.filter)
         newer(s, t) == \A e \in s, f \in t : f.time <= e.time
     IN \E skipped \in SUBSET all : \E page \in SUBSET (all \ skipped) :
          /\ Cardinality(skipped) = query.offset \/ (skipped = all /\ Cardinality(all) < query.offset)
          /\ Cardinality(page) = query.limit \/ (page = all \ skipped /\ Cardinality(page) < query.limit)
          /\ newer(skipped, all \ skipped) /\ newer(page, (all \ skipped) \ page)
          /\ Show(page)
  /\ UNCHANGED vars

\* One request: one page of the list as it is now.
ReadPage ==
  /\ query.stage = "paging"
  /\ Show(Page)
  /\ UNCHANGED vars

\* The log goes on.  A row that is edited or deleted meanwhile may move others
\* to pages already read: then nothing is owed.  Bound: not after the reader.
Go == /\ query.stage # "done"
      /\ Next
      /\ owed' = IF tampered' = tampered THEN owed ELSE {}
      /\ UNCHANGED query

QNext == \/ \E f \in Bodies \cup {None}, n \in Limits : StartQuery(f, n)
         \/ ReadPage
         \/ Go

QSpec == QInit /\ [][QNext]_<<vars, reading>>

-----------------------------------------------------------------------------
(* Properties *)

\* An auditor who reads to the end sees every event that was in the log when it
\* began, whatever is recorded in the meantime and wherever the clock sorts it:
\* insertion only moves rows to later pages.  It may see an event twice, and
\* miss what is recorded while it reads (repositories.py:207).
PagingMissesNothing == query.stage = "done" => owed = {}
=============================================================================
