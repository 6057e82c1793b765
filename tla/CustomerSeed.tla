----------------------------- MODULE CustomerSeed -----------------------------
(***************************************************************************)
(* The customers of the sample CRM and the seed that runs before every     *)
(* start.  A CRM request is one transaction on a pool thread: a SELECT,    *)
(* then an UPDATE or DELETE by key that other transactions may have        *)
(* overtaken.  The seed (persistence/seed.py) is one transaction too; the  *)
(* services wait until it has committed (docker-compose.yml depends_on     *)
(* service_completed_successfully, infra/terraform/main.tf SUCCESS).       *)
(*                                                                         *)
(* Of the seed's rows the agent, the tool and the manifest are written     *)
(* together and read as one step; nothing in the code changes what the     *)
(* seed compares of them, so their conflicts are left out.  The internal   *)
(* API key and the layout of a row (email, tier, address: "contact") are   *)
(* abstracted.                                                             *)
(***************************************************************************)
EXTENDS Naturals

CONSTANTS NumCustomers, \* the seed's customers, 1..NumCustomers
          Requests,     \* CRM requests, each made once
          Values,       \* values of a field
          Seeded,       \* the value the seed gives to each field
          MaxStarts,    \* bound on runs of the seed
          None

ASSUME SeedAssumption ==
  /\ NumCustomers \in Nat \ {0} /\ MaxStarts \in Nat
  /\ Seeded \in Values /\ None \notin Values

VARIABLES agent,    \* the agent's row: None, "active" or "suspended"
          manifest, \* the seed's manifest: None, "active" or "superseded"
          rows,     \* crm_customers: a row or None for each customer
          seed,     \* the seed's transaction
          up,       \* whether the services have been started
          req,      \* CRM requests
          starts

vars == <<agent, manifest, rows, seed, up, req, starts>>

Customers == 1..NumCustomers
Fields == {"name", "contact"}
SeedRow == [f \in Fields |-> Seeded]

\* CustomerPatch: at least one field; an explicit null passes validation.
Changes == UNION {[S -> Values \cup {None}] : S \in (SUBSET Fields) \ {{}}}
Kinds == {"read", "patch", "delete"}

\* None is told apart from what it stands for the absence of.
ASSUME NoneAssumption ==
  /\ None \notin {"active", "suspended", "superseded", 200, 204, 404, 500}
  /\ None \notin [Fields -> Values] /\ None \notin Changes

Free == [pc |-> "free", kind |-> None, customer |-> None, change |-> None,
         read |-> None, answer |-> None]
Idle == [pc |-> "idle", next |-> 0, fresh |-> FALSE, adds |-> {}]

Init == /\ agent = None /\ manifest = None
        /\ rows = [c \in Customers |-> None]
        /\ seed = Idle
        /\ up = FALSE
        /\ req = [r \in Requests |-> Free]
        /\ starts = 0

-----------------------------------------------------------------------------
(* seed_phase_1 *)

StartSeed ==
  /\ seed.pc # "run" /\ starts < MaxStarts
  /\ seed' = [Idle EXCEPT !.pc = "run"]
  /\ starts' = starts + 1
  /\ UNCHANGED <<agent, manifest, rows, up, req>>

\* Mutant: the agent is committed before the rest.
SeedAgentCommitted ==
  /\ seed.pc = "run" /\ seed.next = 0
  /\ seed' = [seed EXCEPT !.next = 1, !.fresh = agent = None]
  /\ agent' = IF agent = None THEN "active" ELSE agent
  /\ UNCHANGED <<manifest, rows, up, req, starts>>

\* The agent, the tool and the manifest are read, and added when absent.
SeedPolicy ==
  /\ seed.pc = "run" /\ seed.next = 0
  /\ seed' = [seed EXCEPT !.next = 1, !.fresh = agent = None]
  /\ UNCHANGED <<agent, manifest, rows, up, req, starts>>

\* One customer is read: added when absent, and its name compared otherwise.
SeedCustomer ==
  LET c == seed.next IN
  /\ seed.pc = "run" /\ c \in Customers
  /\ seed' = IF rows[c] = None
               THEN [seed EXCEPT !.next = c + 1, !.adds = @ \cup {c}]
             ELSE IF rows[c]["name"] # Seeded THEN [Idle EXCEPT !.pc = "failed"]
             ELSE [seed EXCEPT !.next = c + 1]
  /\ UNCHANGED <<agent, manifest, rows, up, req, starts>>

\* Mutant: the seed writes every customer it has.
SeedUpserts ==
  /\ seed.pc = "run" /\ seed.next = NumCustomers + 1
  /\ agent' = IF seed.fresh THEN "active" ELSE agent
  /\ manifest' = IF seed.fresh THEN "active" ELSE manifest
  /\ rows' = [c \in Customers |-> SeedRow]
  /\ seed' = Idle
  /\ up' = TRUE
  /\ UNCHANGED <<req, starts>>

\* The transaction commits; a manifest it added is active by then.  The
\* services, which wait for the seed, start.
SeedCommit ==
  /\ seed.pc = "run" /\ seed.next = NumCustomers + 1
  /\ agent' = IF seed.fresh THEN "active" ELSE agent
  /\ manifest' = IF seed.fresh THEN "active" ELSE manifest
  /\ rows' = [c \in Customers |-> IF c \in seed.adds THEN SeedRow ELSE rows[c]]
  /\ seed' = Idle
  /\ up' = TRUE
  /\ UNCHANGED <<req, starts>>

\* The stack stops or crashes: open transactions are rolled back.
Stop ==
  /\ up \/ seed.pc = "run"
  /\ up' = FALSE
  /\ seed' = Idle
  /\ req' = [r \in Requests |-> IF req[r].pc \in {"called", "read"}
                                  THEN [req[r] EXCEPT !.pc = "lost"] ELSE req[r]]
  /\ UNCHANGED <<agent, manifest, rows, starts>>

-----------------------------------------------------------------------------
(* The CRM endpoints *)

Call(r, kind, c, change) ==
  /\ up /\ req[r].pc = "free"
  /\ (kind = "patch") <=> (change # None)
  /\ req' = [req EXCEPT ![r] = [Free EXCEPT !.pc = "called", !.kind = kind,
                                            !.customer = c, !.change = change]]
  /\ UNCHANGED <<agent, manifest, rows, seed, up, starts>>

Answered(r, status) == [req EXCEPT ![r].pc = "done", ![r].answer = status]

\* SELECT: a missing customer answers 404; a read answers with the row.
Select(r) ==
  LET row == rows[req[r].customer] IN
  /\ req[r].pc = "called"
  /\ req' = IF row = None THEN Answered(r, 404)
            ELSE IF req[r].kind = "read" THEN Answered(r, 200)
            ELSE [req EXCEPT ![r].pc = "read", ![r].read = row]
  /\ UNCHANGED <<agent, manifest, rows, seed, up, starts>>

\* The fields whose value differs from the row that was read: an attribute set
\* to the value it has is not part of the UPDATE.
Dirty(r) == {f \in DOMAIN req[r].change : req[r].change[f] # req[r].read[f]}

\* Mutant: a null reaches the table.
AnyStorable(r) == TRUE
\* The columns are NOT NULL.
Storable(r) == \A f \in DOMAIN req[r].change : req[r].change[f] # None

\* Mutant: the UPDATE writes the whole row that was read.
WriteWholeRow(r, row) ==
  IF row = None THEN None
  ELSE [f \in Fields |-> IF f \in DOMAIN req[r].change THEN req[r].change[f]
                                                       ELSE req[r].read[f]]
\* Mutant: the row is written back when it is gone.
WriteUpserts(r, row) ==
  [f \in Fields |-> IF f \in Dirty(r) THEN req[r].change[f]
                    ELSE IF row = None THEN req[r].read[f] ELSE row[f]]

\* UPDATE crm_customers SET <dirty fields> WHERE customer_id: the row as it is now.
Written(r, row) ==
  IF row = None THEN None
  ELSE [f \in Fields |-> IF f \in Dirty(r) THEN req[r].change[f] ELSE row[f]]

\* Mutant: nobody counts the rows the UPDATE has matched.
AlwaysFlushed(row) == 200
\* An UPDATE that matched no row is a StaleDataError.
Flushed(row) == IF row = None THEN 500 ELSE 200

\* flush and commit.  No dirty field: no statement.  A row deleted since the
\* SELECT: StaleDataError, which answers 500, as does a null.
Patch(r) ==
  LET c == req[r].customer IN
  /\ req[r].pc = "read" /\ req[r].kind = "patch"
  /\ \/ /\ Dirty(r) = {}
        /\ rows' = rows /\ req' = Answered(r, 200)
     \/ /\ Dirty(r) # {} /\ Storable(r)
        /\ rows' = [rows EXCEPT ![c] = Written(r, @)]
        /\ req' = Answered(r, Flushed(rows'[c]))
     \/ /\ Dirty(r) # {} /\ ~Storable(r)
        /\ rows' = rows /\ req' = Answered(r, 500)
  /\ UNCHANGED <<agent, manifest, seed, up, starts>>

\* DELETE by key; that the row is already gone is no error.
Delete(r) ==
  /\ req[r].pc = "read" /\ req[r].kind = "delete"
  /\ rows' = [rows EXCEPT ![req[r].customer] = None]
  /\ req' = Answered(r, 204)
  /\ UNCHANGED <<agent, manifest, seed, up, starts>>

-----------------------------------------------------------------------------
(* What administrators do to the seed's rows *)

Suspend == /\ agent = "active" /\ agent' = "suspended"
           /\ UNCHANGED <<manifest, rows, seed, up, req, starts>>
\* ManifestRepository.activate of a later manifest.
Supersede == /\ manifest = "active" /\ manifest' = "superseded"
             /\ UNCHANGED <<agent, rows, seed, up, req, starts>>

Next == \/ StartSeed \/ SeedPolicy \/ SeedCustomer \/ SeedCommit \/ Stop
        \/ \E r \in Requests :
             \/ \E kind \in Kinds, c \in Customers, change \in Changes \cup {None} :
                  Call(r, kind, c, change)
             \/ Select(r) \/ Patch(r) \/ Delete(r)
        \/ Suspend \/ Supersede

Spec == Init /\ [][Next]_vars

-----------------------------------------------------------------------------
(* Properties *)

\* The variables have their types; no null is stored in a customer.
TypeOK ==
  /\ agent \in {None, "active", "suspended"}
  /\ manifest \in {None, "active", "superseded"}
  /\ rows \in [Customers -> [Fields -> Values] \cup {None}]
  /\ seed \in [pc : {"idle", "run", "failed"}, next : 0..NumCustomers + 1,
               fresh : BOOLEAN, adds : SUBSET Customers]
  /\ up \in BOOLEAN /\ starts \in 0..MaxStarts
  /\ \A r \in Requests : req[r].pc \in {"free", "called", "read", "done", "lost"}
                         /\ req[r].answer \in {None, 200, 204, 404, 500}

\* All or nothing: however the seed is interrupted, its rows are there together
\* or not at all, and no service answers before they are.
NoHalfSeed ==
  /\ (agent = None) <=> (manifest = None)
  /\ agent = None => /\ \A c \in Customers : rows[c] = None
                     /\ ~up

\* Running the seed again neither overwrites an edited customer nor reinstates
\* a suspended agent or a superseded manifest.
SeedOverwritesNothing ==
  [][seed' # seed =>
       /\ \A c \in Customers : rows[c] # None => rows'[c] = rows[c]
       /\ agent # None => agent' = agent
       /\ manifest # None => manifest' = manifest]_vars

\* Concurrent edits of one customer do not undo each other: a field of a stored
\* customer changes only to what a PATCH sent for that very field, and that PATCH
\* answers 200; no request writes back what it had merely read, and a failed one
\* leaves no part of its change.
OnlySentFieldsChange ==
  [][\A c \in Customers, f \in Fields :
       rows[c] # None /\ rows'[c] # None /\ rows'[c][f] # rows[c][f] =>
         \E r \in Requests :
           /\ req[r].pc = "read" /\ req[r].kind = "patch" /\ req[r].customer = c
           /\ f \in DOMAIN req[r].change /\ req[r].change[f] = rows'[c][f]
           /\ req'[r].answer = 200]_vars

\* What the answer 200 of a PATCH promises of each field the request sent, from the
\* table as it is then: it holds the value sent.  One case is excepted, which the
\* code has: the value sent is the one that the SELECT returned, so that no UPDATE
\* names it, and the row has been changed or deleted since.  An update that had
\* something to write never reports success on a deleted customer.
SuccessMeansStored ==
  [][\A r \in Requests :
       req[r].kind = "patch" /\ req[r].pc = "read" /\ req'[r].answer = 200 =>
         LET c == req[r].customer
         IN \A f \in DOMAIN req[r].change :
              \/ rows'[c] # None /\ rows'[c][f] = req[r].change[f]
              \/ req[r].change[f] = req[r].read[f] /\ rows[c] # req[r].read]_vars

\* A deleted customer comes back by the seed and by nothing else: an update that
\* had read the row does not write it again.
DeletedStaysDeleted ==
  [][\A c \in Customers :
       rows[c] = None /\ rows'[c] # None => seed.pc = "run" /\ rows'[c] = SeedRow]_vars

\* docs/data-model.md: "The seed operation is idempotent": run again on the data
\* it made, which only the CRM's own endpoints have changed, it never fails.
SeedIsIdempotent == seed.pc # "failed"
=============================================================================
