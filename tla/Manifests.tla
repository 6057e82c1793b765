------------------------------ MODULE Manifests ------------------------------
(***************************************************************************)
(* Activation of permission manifests, ManifestRepository.activate         *)
(* (persistence/repositories.py), among the other transactions that lock   *)
(* rows of agents and manifests: the insert of an audit event, whose       *)
(* foreign keys share both, and the creation of a session.                 *)
(*                                                                         *)
(* A statement that locks a row waits while another transaction holds a    *)
(* lock that conflicts; locks are held to the end of the transaction, and  *)
(* what it writes is seen by others when it commits.  The partial unique   *)
(* index on active manifests (domain/models.py) is left out: the locks     *)
(* alone must do.  Rows of sessions are left out as well: an event shares  *)
(* one, which conflicts with nothing the code does to it.                  *)
(***************************************************************************)
EXTENDS Naturals, FiniteSets

CONSTANTS Txns,           \* transactions
          Agents, Manifests,
          ManifestAgent,  \* the agent each manifest belongs to
          MaxCalls,       \* bound on transactions begun
          None

ASSUME ManifestAssumption ==
  /\ ManifestAgent \in [Manifests -> Agents]
  /\ None \notin Manifests /\ None \notin Agents /\ None \notin Txns
  /\ Manifests \cap Agents = {}   \* rows of two tables
  /\ MaxCalls \in Nat

VARIABLES status,   \* committed status of each manifest
          locks,    \* the row locks held: transaction, row and mode
          pc,       \* "idle" or the statement each transaction runs next
          agent,    \* the agent each transaction is about, once it knows
          target,   \* the manifest it activates, or cites in an event
          current,  \* the active manifest an activation found, or None
          calls

vars == <<status, locks, pc, agent, target, current, calls>>
work == <<agent, target, current>>

Rows == Manifests \cup Agents
Activating == {"lockTarget", "lockAgent", "check", "supersede", "activate"}
Recording == {"shareAgent", "shareManifest", "commitEvent"}
Creating == {"lockForSession", "insertSession"}

\* Row locks of PostgreSQL: FOR UPDATE, the UPDATE of columns that are no key,
\* and FOR KEY SHARE, which foreign keys take on the row they refer to.
Modes == {"update", "noKeyUpdate", "keyShare"}
Conflict(p, q) == "update" \in {p, q} \/ (p = "noKeyUpdate" /\ q = "noKeyUpdate")

TypeOK == /\ status \in [Manifests -> {"draft", "active", "superseded"}]
          /\ locks \subseteq [txn : Txns, row : Rows, mode : Modes]
          /\ pc \in [Txns -> {"idle"} \cup Activating \cup Recording \cup Creating]
          /\ agent \in [Txns -> Agents \cup {None}]
          /\ target \in [Txns -> Manifests \cup {None}]
          /\ current \in [Txns -> Manifests \cup {None}]
          /\ calls \in 0..MaxCalls

Init == /\ status = [m \in Manifests |-> "draft"]
        /\ locks = {}
        /\ pc = [t \in Txns |-> "idle"]
        /\ agent = [t \in Txns |-> None]
        /\ target = [t \in Txns |-> None]
        /\ current = [t \in Txns |-> None]
        /\ calls = 0

Goto(t, stage) == pc' = [pc EXCEPT ![t] = stage]

Start(t, a, m, stage) ==
  /\ pc[t] = "idle"
  /\ calls < MaxCalls
  /\ calls' = calls + 1
  /\ agent' = [agent EXCEPT ![t] = a]
  /\ target' = [target EXCEPT ![t] = m]
  /\ Goto(t, stage)
  /\ UNCHANGED <<status, locks, current>>

\* COMMIT or ROLLBACK: the locks go, and with them the transaction's state.
End(t) == /\ Goto(t, "idle")
          /\ locks' = {l \in locks : l.txn # t}
          /\ agent' = [agent EXCEPT ![t] = None]
          /\ target' = [target EXCEPT ![t] = None]
          /\ current' = [current EXCEPT ![t] = None]

\* Transaction u holds a lock that keeps t from locking row x.
Holds(u, x, t, mode) ==
  u # t /\ \E l \in locks : l.txn = u /\ l.row = x /\ Conflict(l.mode, mode)

Acquire(t, x, mode, stage) ==
  /\ \A u \in Txns : ~Holds(u, x, t, mode)
  /\ locks' = locks \cup {[txn |-> t, row |-> x, mode |-> mode]}
  /\ Goto(t, stage)

-----------------------------------------------------------------------------
(* ManifestRepository.activate *)

Begin(t, m) == Start(t, None, m, "lockTarget")

\* Mutant: the target and the manifest active now are locked at the start.
LockBoth(t) ==
  /\ pc[t] = "lockTarget"
  /\ LET both == {target[t]} \cup {m \in Manifests : status[m] = "active" /\
                                     ManifestAgent[m] = ManifestAgent[target[t]]}
     IN /\ \A u \in Txns, m \in both : ~Holds(u, m, t, "update")
        /\ locks' = locks \cup {[txn |-> t, row |-> m, mode |-> "update"] : m \in both}
  /\ agent' = [agent EXCEPT ![t] = ManifestAgent[target[t]]]
  /\ Goto(t, "lockAgent")
  /\ UNCHANGED <<status, target, current, calls>>

\* SELECT ... FOR UPDATE of the target manifest, which names the agent.
LockTarget(t) ==
  /\ pc[t] = "lockTarget"
  /\ Acquire(t, target[t], "update", "lockAgent")
  /\ agent' = [agent EXCEPT ![t] = ManifestAgent[target[t]]]
  /\ UNCHANGED <<status, target, current, calls>>

\* Mutant: the agent row is read without FOR UPDATE.
ReadAgent(t) ==
  /\ pc[t] = "lockAgent"
  /\ Goto(t, "check")
  /\ UNCHANGED <<status, locks, work, calls>>

\* SELECT ... FOR UPDATE of the owning agent.
LockAgent(t) ==
  /\ pc[t] = "lockAgent"
  /\ Acquire(t, agent[t], "update", "check")
  /\ UNCHANGED <<status, work, calls>>

\* get_active of the agent.
ActiveOf(a) == {m \in Manifests : ManifestAgent[m] = a /\ status[m] = "active"}

\* Mutant: any target that is not active is activated.
CheckNotActive(t) ==
  /\ pc[t] = "check"
  /\ status[target[t]] # "active"
  /\ \/ ActiveOf(agent[t]) = {} /\ Goto(t, "activate") /\ UNCHANGED current
     \/ \E m \in ActiveOf(agent[t]) :
          current' = [current EXCEPT ![t] = m] /\ Goto(t, "supersede")
  /\ UNCHANGED <<status, locks, agent, target, calls>>

\* An active target is returned, one that is not a draft is refused; for a
\* draft the manifest active now is looked up.
Check(t) ==
  /\ pc[t] = "check"
  /\ \/ /\ status[target[t]] # "draft"
        /\ End(t)
     \/ /\ status[target[t]] = "draft"
        /\ \/ ActiveOf(agent[t]) = {} /\ Goto(t, "activate") /\ UNCHANGED current
           \/ \E m \in ActiveOf(agent[t]) :
                current' = [current EXCEPT ![t] = m] /\ Goto(t, "supersede")
        /\ UNCHANGED <<locks, agent, target>>
  /\ UNCHANGED <<status, calls>>

\* Mutant: superseding commits on its own.
SupersedeAtOnce(t) ==
  /\ pc[t] = "supersede"
  /\ Acquire(t, current[t], "noKeyUpdate", "activate")
  /\ status' = [status EXCEPT ![current[t]] = "superseded"]
  /\ UNCHANGED <<work, calls>>

\* UPDATE of the current manifest, which waits for a lock on its row.
Supersede(t) ==
  /\ pc[t] = "supersede"
  /\ Acquire(t, current[t], "noKeyUpdate", "activate")
  /\ UNCHANGED <<status, work, calls>>

\* Mutant: the manifest it replaces is given a status that is not one of them.
ActivateRetiring(t) ==
  /\ pc[t] = "activate"
  /\ status' = [m \in Manifests |-> IF m = target[t] THEN "active"
                                    ELSE IF m = current[t] THEN "retired"
                                    ELSE status[m]]
  /\ End(t)
  /\ UNCHANGED calls

\* UPDATE of the target, and COMMIT: both changes become visible at once.
Activate(t) ==
  /\ pc[t] = "activate"
  /\ status' = [m \in Manifests |-> IF m = target[t] THEN "active"
                                    ELSE IF m = current[t] THEN "superseded"
                                    ELSE status[m]]
  /\ End(t)
  /\ UNCHANGED calls

-----------------------------------------------------------------------------
(* AuditService.record: one INSERT, whose foreign keys are checked in the  *)
(* order in which the table declares them                                  *)

\* The decision of a call of agent a cites the manifest the evaluation read,
\* which may be superseded by now, or none.  Only one event is written at a
\* time: the insert runs on the event loop of the only worker.
BeginEvent(t, a, m) ==
  /\ \A u \in Txns : pc[u] \notin Recording
  /\ m \in {None} \cup {n \in Manifests : ManifestAgent[n] = a /\ status[n] # "draft"}
  /\ Start(t, a, m, "shareAgent")

\* agent_id REFERENCES agents.
ShareAgent(t) ==
  /\ pc[t] = "shareAgent"
  /\ Acquire(t, agent[t], "keyShare",
             IF target[t] = None THEN "commitEvent" ELSE "shareManifest")
  /\ UNCHANGED <<status, work, calls>>

\* matched_manifest_id REFERENCES permission_manifests.
ShareManifest(t) ==
  /\ pc[t] = "shareManifest"
  /\ Acquire(t, target[t], "keyShare", "commitEvent")
  /\ UNCHANGED <<status, work, calls>>

CommitEvent(t) ==
  /\ pc[t] = "commitEvent"
  /\ End(t)
  /\ UNCHANGED <<status, calls>>

-----------------------------------------------------------------------------
(* TrustedSessionService.create *)

BeginSession(t, a) == Start(t, a, None, "lockForSession")

\* SELECT ... FOR UPDATE of the agent.
LockForSession(t) ==
  /\ pc[t] = "lockForSession"
  /\ Acquire(t, agent[t], "update", "insertSession")
  /\ UNCHANGED <<status, work, calls>>

\* The session refers to the agent row its transaction holds already.
InsertSession(t) ==
  /\ pc[t] = "insertSession"
  /\ End(t)
  /\ UNCHANGED <<status, calls>>

-----------------------------------------------------------------------------
(* The database *)

\* The row a transaction waits for, and the lock it wants there.
Wanted(t) ==
  CASE pc[t] = "lockTarget" -> <<target[t], "update">>
    [] pc[t] \in {"lockAgent", "lockForSession"} -> <<agent[t], "update">>
    [] pc[t] = "supersede" -> <<current[t], "noKeyUpdate">>
    [] pc[t] = "shareAgent" -> <<agent[t], "keyShare">>
    [] pc[t] = "shareManifest" -> <<target[t], "keyShare">>
    [] OTHER -> <<None, "keyShare">>
Blocks(u, t) == Holds(u, Wanted(t)[1], t, Wanted(t)[2])
\* With these transactions a cycle has two members: one that has the agent row,
\* and an activation that waits for it with a manifest the first one wants.
Deadlocked(t) == \E u \in Txns : Blocks(u, t) /\ Blocks(t, u)

\* Mutant: the database does not look for deadlocks.
NoDetector(t) == FALSE /\ UNCHANGED vars

\* PostgreSQL's detector breaks the cycle: one transaction is rolled back.
DeadlockAbort(t) ==
  /\ Deadlocked(t)
  /\ End(t)
  /\ UNCHANGED <<status, calls>>

\* A statement fails or the client dies: everything is rolled back.
Abort(t) ==
  /\ pc[t] # "idle"
  /\ End(t)
  /\ UNCHANGED <<status, calls>>

Statement(t) == \/ LockTarget(t) \/ LockAgent(t) \/ Check(t)
                \/ Supersede(t) \/ Activate(t)
                \/ ShareAgent(t) \/ ShareManifest(t) \/ CommitEvent(t)
                \/ LockForSession(t) \/ InsertSession(t)

Next == \E t \in Txns :
          \/ \E m \in Manifests : Begin(t, m)
          \/ \E a \in Agents, m \in Manifests \cup {None} : BeginEvent(t, a, m)
          \/ \E a \in Agents : BeginSession(t, a)
          \/ Statement(t) \/ DeadlockAbort(t) \/ Abort(t)

Spec == Init /\ [][Next]_vars

\* A statement that is not waiting returns, a row lock is granted to one of its
\* waiters when it is free, and the detector looks at every wait.
FairSpec == Spec /\ \A t \in Txns : WF_vars(Statement(t)) /\ WF_vars(DeadlockAbort(t))

-----------------------------------------------------------------------------
(* Properties *)

\* An agent never has two active manifests, by the locks alone
\* (repositories.py:102).
OneActive == \A a \in Agents : Cardinality(ActiveOf(a)) <= 1

\* Once an agent has an active manifest it always has one: no moment of a
\* switch leaves its calls without policy (repositories.py:113-121).
NeverWithoutPolicy ==
  [][\A a \in Agents : ActiveOf(a) # {} =>
       \E m \in Manifests : ManifestAgent[m] = a /\ status'[m] = "active"]_vars

InForce(a) == IF ActiveOf(a) = {} THEN None ELSE CHOOSE m \in ActiveOf(a) : TRUE

\* Activation is an atomic switch of a register: what others see of any number
\* of overlapping activations, aborts and deadlocks is one switch per commit,
\* from the manifest in force to a draft, and never back (repositories.py:97).
Register == INSTANCE ManifestRegister
  WITH active <- [a \in Agents |-> InForce(a)],
       retired <- {m \in Manifests : status[m] = "superseded"}
ImplementsRegister == Register!Spec

\* Rolling out a draft never costs an audit event or a session: an event is in
\* a deadlock only with an activation that has nothing to do, of a manifest
\* that is active, or was, and that the event cites, and a session in none
\* (repositories.py:98 against the foreign keys of tool_call_audit_events).
RolloutSparesAudit ==
  \A t, u \in Txns :
    pc[t] \in Recording \cup Creating /\ Blocks(u, t) /\ Blocks(t, u) =>
      pc[u] \in Activating /\ target[u] = target[t] /\ status[target[u]] # "draft"

\* Every transaction ends, committed or rolled back.  Two cycles are possible,
\* both with an activation of the active manifest, and the detector breaks
\* them; an audit event that waits holds up the event loop, so it must end.
TransactionsEnd == \A t \in Txns : pc[t] # "idle" ~> pc[t] = "idle"
=============================================================================
