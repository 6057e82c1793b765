------------------------------ MODULE Sessions -------------------------------
(***************************************************************************)
(* Trusted sessions: TrustedSessionService.create, validate and revoke     *)
(* (security/sessions.py), called by threads of the proxy (the endpoints   *)
(* of api/security_routes.py run in a thread pool, validate also runs on   *)
(* the event loop for each tool call).                                     *)
(*                                                                         *)
(* Every SQL statement is an action: under READ COMMITTED each sees the    *)
(* rows committed before it.  create locks the agent row, validate and     *)
(* revoke lock nothing.  Time is counted in ticks, Second of them to the   *)
(* second: a row keeps full resolution, a JWT whole seconds.               *)
(***************************************************************************)
EXTENDS Integers, FiniteSets

CONSTANTS Threads, Agents, SessionIds,
          Second,          \* ticks per second
          MinTtl, MaxTtl,  \* 60 seconds and session_token_ttl_seconds
          MaxTime,         \* bound on the clock
          MaxChanges,      \* bound on changes of an agent's status
          None

ASSUME TimeAssumption ==
  /\ Second \in Nat \ {0} /\ MinTtl \in Nat \ {0} /\ MaxTtl \in Nat
  /\ MaxTime \in Nat /\ MaxChanges \in Nat

VARIABLES now,      \* the wall clock
          status,   \* agents: "active" or "suspended"
          row,      \* agent_sessions: a row, or None
          token,    \* the JWT issued for a session, or None
          lock,     \* the thread that has each agent row FOR UPDATE, or None
          pc,       \* each thread: "idle" or the statement it runs next
          work,     \* each thread: what it works with
          changes

vars == <<now, status, row, token, lock, pc, work, changes>>
tables == <<status, row, token, lock, changes>>

Times == 0..(MaxTime + Second * MaxTtl)
Rows == [agent : Agents, status : {"active", "revoked"}, created : Times,
         expires : Times, revokedAt : Times \cup {None}]
Tokens == [agent : Agents, iat : Times, exp : Times]
\* None is told apart from what it stands for the absence of.
ASSUME NoneAssumption == None \notin Threads /\ None \notin Rows /\ None \notin Tokens

Stages == {"idle", "lock", "insert", "readRow", "readAgent", "valid", "readRevoke", "writeRevoke"}

TypeOK ==
  /\ now \in 0..MaxTime
  /\ status \in [Agents -> {"active", "suspended"}]
  /\ row \in [SessionIds -> Rows \cup {None}]
  /\ token \in [SessionIds -> Tokens \cup {None}]
  /\ lock \in [Agents -> Threads \cup {None}]
  /\ pc \in [Threads -> Stages]
  /\ changes \in 0..MaxChanges

Init == /\ now = 0
        /\ status = [a \in Agents |-> "active"]
        /\ row = [s \in SessionIds |-> None]
        /\ token = [s \in SessionIds |-> None]
        /\ lock = [a \in Agents |-> None]
        /\ pc = [t \in Threads |-> "idle"]
        /\ work = [t \in Threads |-> None]
        /\ changes = 0

Goto(t, stage) == pc' = [pc EXCEPT ![t] = stage]
End(t) == /\ Goto(t, "idle")
          /\ work' = [work EXCEPT ![t] = None]

-----------------------------------------------------------------------------
(* create: POST /v1/sessions *)

\* Bound: a create begins only if a session id is left for it.
FreeId == Cardinality({t \in Threads : pc[t] \in {"lock", "insert"}})
            < Cardinality({s \in SessionIds : row[s] = None})

\* The TTL is checked and the clock read before the transaction begins.
CreateBegin(t, a, ttl) ==
  /\ pc[t] = "idle"
  /\ ttl >= MinTtl /\ ttl <= MaxTtl
  /\ FreeId
  /\ work' = [work EXCEPT ![t] = [agent |-> a, created |-> now,
                                  expires |-> now + Second * ttl]]
  /\ Goto(t, "lock")
  /\ UNCHANGED <<now, tables>>

\* Mutant: SELECT without FOR UPDATE.
CreateLockless(t) ==
  /\ pc[t] = "lock"
  /\ IF status[work[t].agent] = "active"
       THEN Goto(t, "insert") /\ UNCHANGED work
       ELSE End(t)
  /\ UNCHANGED <<now, tables>>

\* SELECT ... FOR UPDATE of the agent row; an inactive agent ends it there.
CreateLock(t) ==
  /\ pc[t] = "lock"
  /\ lock[work[t].agent] = None
  /\ IF status[work[t].agent] = "active"
       THEN /\ lock' = [lock EXCEPT ![work[t].agent] = t]
            /\ Goto(t, "insert") /\ UNCHANGED work
       ELSE /\ End(t) /\ UNCHANGED lock
  /\ UNCHANGED <<now, status, row, token, changes>>

\* Mutant: the JWT's times are rounded up to the second.
CeilSecond(n) == ((n + Second - 1) \div Second) * Second

\* A JWT carries whole seconds.
FloorSecond(n) == (n \div Second) * Second

\* SessionTokenCodec.issue.
Issue(w) == [agent |-> w.agent, iat |-> FloorSecond(w.created), exp |-> FloorSecond(w.expires)]

\* Mutant: the transaction is left open.
InsertLeaveOpen(t, s) ==
  /\ pc[t] = "insert"
  /\ row[s] = None
  /\ row' = [row EXCEPT ![s] = [agent |-> work[t].agent, status |-> "active",
               created |-> work[t].created, expires |-> work[t].expires, revokedAt |-> None]]
  /\ token' = [token EXCEPT ![s] = Issue(work[t])]
  /\ End(t)
  /\ UNCHANGED <<now, status, lock, changes>>

\* The session row is inserted, its token issued, and the transaction commits.
CreateInsert(t, s) ==
  /\ pc[t] = "insert"
  /\ row[s] = None
  /\ row' = [row EXCEPT ![s] = [agent |-> work[t].agent, status |-> "active",
               created |-> work[t].created, expires |-> work[t].expires, revokedAt |-> None]]
  /\ token' = [token EXCEPT ![s] = Issue(work[t])]
  /\ lock' = [a \in Agents |-> IF lock[a] = t THEN None ELSE lock[a]]
  /\ End(t)
  /\ UNCHANGED <<now, status, changes>>

-----------------------------------------------------------------------------
(* validate: each tool call, and POST /v1/sessions/validate *)

\* SessionTokenCodec.decode and the binding to the authenticated agent.  The
\* history remembers whether the session was already revoked by then.
ValidateDecode(t, s, a) ==
  /\ pc[t] = "idle"
  /\ token[s] # None
  /\ token[s].iat <= now /\ now < token[s].exp
  /\ token[s].agent = a
  /\ work' = [work EXCEPT ![t] = [session |-> s, began |-> now,
                                  wasRevoked |-> row[s].status = "revoked"]]
  /\ Goto(t, "readRow")
  /\ UNCHANGED <<now, tables>>

\* Mutant: the row is read for its expiry alone.
ReadExpiry(t) ==
  /\ pc[t] = "readRow"
  /\ IF row[work[t].session].expires > now THEN Goto(t, "readAgent") /\ UNCHANGED work
                                          ELSE End(t)
  /\ UNCHANGED <<now, tables>>

\* Mutant: an expired session is stored as "expired".
ReadAndExpire(t) ==
  /\ pc[t] = "readRow"
  /\ row[work[t].session].expires <= now
  /\ row' = [row EXCEPT ![work[t].session].status = "expired"]
  /\ End(t)
  /\ UNCHANGED <<now, status, token, lock, changes>>

\* The session row: it must be active and not expired.
ValidateReadRow(t) ==
  /\ pc[t] = "readRow"
  /\ LET r == row[work[t].session] IN
       IF r.status = "active" /\ r.expires > now
         THEN Goto(t, "readAgent") /\ UNCHANGED work
         ELSE End(t)
  /\ UNCHANGED <<now, tables>>

\* The agent row: it must be active.
ValidateReadAgent(t) ==
  /\ pc[t] = "readAgent"
  /\ IF status[row[work[t].session].agent] = "active"
       THEN Goto(t, "valid") /\ UNCHANGED work
       ELSE End(t)
  /\ UNCHANGED <<now, tables>>

\* The claims are returned to the caller.
ValidateReturn(t) ==
  /\ pc[t] = "valid"
  /\ End(t)
  /\ UNCHANGED <<now, tables>>

-----------------------------------------------------------------------------
(* revoke: POST /v1/sessions/{session_id}/revoke *)

RevokeBegin(t, s) ==
  /\ pc[t] = "idle"
  /\ row[s] # None
  /\ work' = [work EXCEPT ![t] = [session |-> s]]
  /\ Goto(t, "readRevoke")
  /\ UNCHANGED <<now, tables>>

\* Without a lock: a session already revoked is returned as it is.
RevokeRead(t) ==
  /\ pc[t] = "readRevoke"
  /\ IF row[work[t].session].status # "revoked"
       THEN Goto(t, "writeRevoke") /\ UNCHANGED work
       ELSE End(t)
  /\ UNCHANGED <<now, tables>>

\* UPDATE by primary key: it does not look at the status again.
RevokeWrite(t) ==
  /\ pc[t] = "writeRevoke"
  /\ row' = [row EXCEPT ![work[t].session].status = "revoked",
                        ![work[t].session].revokedAt = now]
  /\ End(t)
  /\ UNCHANGED <<now, status, token, lock, changes>>

-----------------------------------------------------------------------------
(* Around it *)

Tick == /\ now < MaxTime
        /\ now' = now + 1
        /\ UNCHANGED <<pc, work, tables>>

\* An administrator updates the agent row, waiting for a lock on it.
SetStatus(a) ==
  /\ changes < MaxChanges
  /\ lock[a] = None
  /\ status' = [status EXCEPT ![a] = IF @ = "active" THEN "suspended" ELSE "active"]
  /\ changes' = changes + 1
  /\ UNCHANGED <<now, row, token, lock, pc, work>>

Ttls == 0..(MaxTtl + 1)

\* A started operation runs to its end.
Proceed(t) ==
  \/ CreateLock(t) \/ (\E s \in SessionIds : CreateInsert(t, s))
  \/ ValidateReadRow(t) \/ ValidateReadAgent(t) \/ ValidateReturn(t)
  \/ RevokeRead(t) \/ RevokeWrite(t)

Call(t) ==
  \/ \E a \in Agents, ttl \in Ttls : CreateBegin(t, a, ttl)
  \/ \E s \in SessionIds, a \in Agents : ValidateDecode(t, s, a)
  \/ \E s \in SessionIds : RevokeBegin(t, s)

Next == \/ \E t \in Threads : Call(t) \/ Proceed(t)
        \/ Tick
        \/ \E a \in Agents : SetStatus(a)

Spec == Init /\ [][Next]_vars

\* A thread of the pool is scheduled and a statement returns.
FairSpec == Spec /\ \A t \in Threads : WF_vars(Proceed(t))

-----------------------------------------------------------------------------
(* Properties *)

\* A revocation that has committed is seen by every later validation: one that
\* began on a revoked session never succeeds (sessions.py:214).
RevokedNeverValidates ==
  \A t \in Threads : pc[t] = "valid" => ~work[t].wasRevoked

\* A session accepted by its token is never past its row's expiry when it is
\* read, and lives at most the permitted TTL: the token ends within the last
\* second of the row, never after it (sessions.py:66 against :162).
TokenEndsWithRow ==
  \A s \in SessionIds : row[s] # None =>
    /\ token[s].exp <= row[s].expires
    /\ row[s].expires - token[s].exp < Second
    /\ row[s].expires - row[s].created \in (Second * MinTtl)..(Second * MaxTtl)

\* No session appears for an agent that is not active: the row lock holds off a
\* suspension between the check and the insert (sessions.py:164).
CreatedForActiveAgent ==
  [][\A s \in SessionIds : row[s] = None /\ row'[s] # None =>
       status[row'[s].agent] = "active"]_vars

\* docs/authentication-and-sessions.md: revocation is idempotent.  Revoking a
\* revoked session leaves its revoked_at alone (sessions.py:242).
RevocationIsIdempotent ==
  [][\A s \in SessionIds : row[s] # None /\ row[s].revokedAt # None =>
       row'[s].revokedAt = row[s].revokedAt]_vars

\* Every operation ends, and with it every lock: a create, a suspension or a
\* second create never waits for ever on the agent row.
OperationsEnd == \A t \in Threads : pc[t] # "idle" ~> pc[t] = "idle"
=============================================================================
