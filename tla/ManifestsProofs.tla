---------------------------- MODULE ManifestsProofs ----------------------------
(***************************************************************************)
(* Theorems about Manifests, for every number of transactions, agents and  *)
(* manifests: the locks that activate takes suffice for one active         *)
(* manifest of each agent, and make it an atomic switch.                   *)
(***************************************************************************)
EXTENDS Manifests, FiniteSetTheorems, TLAPS

(***************************************************************************)
(* The inductive invariant, one idea per conjunct.                         *)
(***************************************************************************)
\* An activation past LockAgent: it may look at the agent's manifests.
Switching == {"check", "supersede", "activate"}

\* What a transaction is about is known from the statement on that finds it.
Informed == \A t \in Txns :
  /\ pc[t] \in Activating => target[t] \in Manifests
  /\ pc[t] \in Activating \ {"lockTarget"} => agent[t] = ManifestAgent[target[t]]
  /\ pc[t] \in Recording \cup Creating => agent[t] \in Agents
  /\ pc[t] = "shareManifest" => target[t] \in Manifests

\* Past LockAgent the agent's row is locked against every other transaction.
AgentLocked == \A t \in Txns :
  pc[t] \in Switching => [txn |-> t, row |-> agent[t], mode |-> "update"] \in locks

\* No two transactions hold locks of one row that conflict.
Compatible == \A k, l \in locks :
  k.txn # l.txn /\ k.row = l.row => ~Conflict(k.mode, l.mode)

\* What a transaction holds while it waits for its second row.
HeldSoFar == \A l \in locks :
  /\ pc[l.txn] \notin {"idle", "lockTarget", "shareAgent", "lockForSession"}
  /\ pc[l.txn] = "lockAgent" => l.row = target[l.txn]
  /\ pc[l.txn] = "shareManifest" => l.row = agent[l.txn] /\ l.mode = "keyShare"

\* What an activation has found in the table is still true when it commits.
Found(t) ==
  /\ pc[t] \notin {"supersede", "activate"} => current[t] = None
  /\ pc[t] \in {"supersede", "activate"} => status[target[t]] = "draft"
  /\ pc[t] = "supersede" => current[t] \in ActiveOf(agent[t])
  /\ pc[t] = "activate" =>
       \/ ActiveOf(agent[t]) = {} /\ current[t] = None
       \/ current[t] \in ActiveOf(agent[t])
StillTrue == \A t \in Txns : Found(t)

\* A manifest that an event cites has been active.
CitedWasActive == \A t \in Txns :
  pc[t] \in Recording /\ target[t] # None => status[target[t]] # "draft"

\* OneActive without counting.
AtMostOne == \A m, n \in Manifests :
  status[m] = "active" /\ status[n] = "active" /\ ManifestAgent[m] = ManifestAgent[n]
    => m = n

Base == TypeOK /\ Informed
Locked == Base /\ AgentLocked /\ Compatible
IInv == Locked /\ HeldSoFar /\ StillTrue /\ CitedWasActive /\ AtMostOne
-----------------------------------------------------------------------------

\* The invariant holds before any transaction begins.
LEMMA InitIInv == Init => IInv
  BY ManifestAssumption
     DEF Init, IInv, Locked, Base, TypeOK, Informed, AgentLocked, Compatible, HeldSoFar,
         StillTrue, Found, CitedWasActive, AtMostOne, Activating, Recording, Creating, Switching

\* A step keeps the types of the variables.
LEMMA TypePreserved == Base /\ StillTrue /\ [Next]_vars => TypeOK'
<1> SUFFICES ASSUME Base /\ StillTrue, [Next]_vars PROVE TypeOK'
  OBVIOUS
<1> USE DEF Base, TypeOK, Informed, StillTrue, Found, Rows, Modes, Goto, work, Activating, Recording, Creating, ActiveOf
<1>1. ASSUME NEW t \in Txns, NEW m \in Manifests, Begin(t, m) PROVE TypeOK'
  BY <1>1, ManifestAssumption DEF Begin, Start
<1>2. ASSUME NEW t \in Txns, NEW a \in Agents, NEW m \in Manifests \cup {None},
             BeginEvent(t, a, m) PROVE TypeOK'
  BY <1>2, ManifestAssumption DEF BeginEvent, Start
<1>3. ASSUME NEW t \in Txns, NEW a \in Agents, BeginSession(t, a) PROVE TypeOK'
  BY <1>3, ManifestAssumption DEF BeginSession, Start
<1>4. ASSUME NEW t \in Txns, LockTarget(t) PROVE TypeOK'
  BY <1>4, ManifestAssumption DEF LockTarget, Acquire
<1>5. ASSUME NEW t \in Txns, LockAgent(t) PROVE TypeOK'
  BY <1>5, ManifestAssumption DEF LockAgent, Acquire
<1>6. ASSUME NEW t \in Txns, Check(t) PROVE TypeOK'
  BY <1>6, ManifestAssumption DEF Check, End
<1>7. ASSUME NEW t \in Txns, Supersede(t) PROVE TypeOK'
  BY <1>7, ManifestAssumption DEF Supersede, Acquire
<1>8. ASSUME NEW t \in Txns, Activate(t) PROVE TypeOK'
  BY <1>8, ManifestAssumption DEF Activate, End
<1>9. ASSUME NEW t \in Txns, ShareAgent(t) PROVE TypeOK'
  BY <1>9, ManifestAssumption DEF ShareAgent, Acquire
<1>10. ASSUME NEW t \in Txns, ShareManifest(t) PROVE TypeOK'
  BY <1>10, ManifestAssumption DEF ShareManifest, Acquire
<1>11. ASSUME NEW t \in Txns, LockForSession(t) PROVE TypeOK'
  BY <1>11, ManifestAssumption DEF LockForSession, Acquire
<1>12. ASSUME NEW t \in Txns,
             CommitEvent(t) \/ InsertSession(t) \/ DeadlockAbort(t) \/ Abort(t) PROVE TypeOK'
  BY <1>12, ManifestAssumption DEF CommitEvent, InsertSession, DeadlockAbort, Abort, End
<1>13. CASE UNCHANGED vars
  BY <1>13 DEF vars
<1> QED
  BY <1>1, <1>2, <1>3, <1>4, <1>5, <1>6, <1>7, <1>8, <1>9, <1>10, <1>11, <1>12, <1>13
     DEF Next, Statement

\* A transaction goes on about the same agent and manifest.
LEMMA InformedPreserved == Base /\ [Next]_vars => Informed'
<1> SUFFICES ASSUME Base, [Next]_vars PROVE Informed'
  OBVIOUS
<1> USE DEF Base, TypeOK, Informed, Goto, work, Activating, Recording, Creating
<1>1. ASSUME NEW t \in Txns, NEW m \in Manifests, Begin(t, m) PROVE Informed'
  BY <1>1 DEF Begin, Start
<1>2. ASSUME NEW t \in Txns, NEW a \in Agents, NEW m \in Manifests \cup {None},
             BeginEvent(t, a, m) PROVE Informed'
  BY <1>2 DEF BeginEvent, Start
<1>3. ASSUME NEW t \in Txns, NEW a \in Agents, BeginSession(t, a) PROVE Informed'
  BY <1>3 DEF BeginSession, Start
<1>4. ASSUME NEW t \in Txns, LockTarget(t) PROVE Informed'
  BY <1>4, ManifestAssumption DEF LockTarget, Acquire
<1>5. ASSUME NEW t \in Txns, LockAgent(t) PROVE Informed'
  BY <1>5 DEF LockAgent, Acquire
<1>6. ASSUME NEW t \in Txns, Check(t) PROVE Informed'
  BY <1>6 DEF Check, End
<1>7. ASSUME NEW t \in Txns, Supersede(t) PROVE Informed'
  BY <1>7 DEF Supersede, Acquire
<1>8. ASSUME NEW t \in Txns, Activate(t) PROVE Informed'
  BY <1>8 DEF Activate, End
<1>9. ASSUME NEW t \in Txns, ShareAgent(t) PROVE Informed'
  BY <1>9 DEF ShareAgent, Acquire
<1>10. ASSUME NEW t \in Txns, ShareManifest(t) PROVE Informed'
  BY <1>10 DEF ShareManifest, Acquire
<1>11. ASSUME NEW t \in Txns, LockForSession(t) PROVE Informed'
  BY <1>11 DEF LockForSession, Acquire
<1>12. ASSUME NEW t \in Txns,
             CommitEvent(t) \/ InsertSession(t) \/ DeadlockAbort(t) \/ Abort(t) PROVE Informed'
  BY <1>12 DEF CommitEvent, InsertSession, DeadlockAbort, Abort, End
<1>13. CASE UNCHANGED vars
  BY <1>13 DEF vars
<1> QED
  BY <1>1, <1>2, <1>3, <1>4, <1>5, <1>6, <1>7, <1>8, <1>9, <1>10, <1>11, <1>12, <1>13
     DEF Next, Statement

\* The agent's lock is held to the end of the transaction.
LEMMA LockPreserved == Locked /\ [Next]_vars => AgentLocked'
<1> SUFFICES ASSUME Locked, [Next]_vars PROVE AgentLocked'
  OBVIOUS
<1> USE DEF Locked, Base, TypeOK, Informed, AgentLocked, Switching, Goto, work, Activating, Recording, Creating
<1>1. ASSUME NEW t \in Txns, NEW m \in Manifests, Begin(t, m) PROVE AgentLocked'
  BY <1>1 DEF Begin, Start
<1>2. ASSUME NEW t \in Txns, NEW a \in Agents, NEW m \in Manifests \cup {None},
             BeginEvent(t, a, m) PROVE AgentLocked'
  BY <1>2 DEF BeginEvent, Start
<1>3. ASSUME NEW t \in Txns, NEW a \in Agents, BeginSession(t, a) PROVE AgentLocked'
  BY <1>3 DEF BeginSession, Start
<1>4. ASSUME NEW t \in Txns, LockTarget(t) PROVE AgentLocked'
  BY <1>4 DEF LockTarget, Acquire
<1>5. ASSUME NEW t \in Txns, LockAgent(t) PROVE AgentLocked'
  BY <1>5 DEF LockAgent, Acquire
<1>6. ASSUME NEW t \in Txns, Check(t) PROVE AgentLocked'
  BY <1>6 DEF Check, End
<1>7. ASSUME NEW t \in Txns, Supersede(t) PROVE AgentLocked'
  BY <1>7 DEF Supersede, Acquire
<1>8. ASSUME NEW t \in Txns, Activate(t) PROVE AgentLocked'
  BY <1>8 DEF Activate, End
<1>9. ASSUME NEW t \in Txns, ShareAgent(t) PROVE AgentLocked'
  BY <1>9 DEF ShareAgent, Acquire
<1>10. ASSUME NEW t \in Txns, ShareManifest(t) PROVE AgentLocked'
  BY <1>10 DEF ShareManifest, Acquire
<1>11. ASSUME NEW t \in Txns, LockForSession(t) PROVE AgentLocked'
  BY <1>11 DEF LockForSession, Acquire
<1>12. ASSUME NEW t \in Txns,
             CommitEvent(t) \/ InsertSession(t) \/ DeadlockAbort(t) \/ Abort(t) PROVE AgentLocked'
  BY <1>12 DEF CommitEvent, InsertSession, DeadlockAbort, Abort, End
<1>13. CASE UNCHANGED vars
  BY <1>13 DEF vars
<1> QED
  BY <1>1, <1>2, <1>3, <1>4, <1>5, <1>6, <1>7, <1>8, <1>9, <1>10, <1>11, <1>12, <1>13
     DEF Next, Statement

\* A lock is granted only if no other transaction holds one against it.
LEMMA CompatiblePreserved == Locked /\ [Next]_vars => Compatible'
<1> SUFFICES ASSUME Locked, [Next]_vars PROVE Compatible'
  OBVIOUS
<1> USE DEF Locked, Base, TypeOK, Compatible, Holds, Conflict, Goto, work, Activating, Recording, Creating
<1>1. ASSUME NEW t \in Txns, NEW m \in Manifests, Begin(t, m) PROVE Compatible'
  BY <1>1 DEF Begin, Start
<1>2. ASSUME NEW t \in Txns, NEW a \in Agents, NEW m \in Manifests \cup {None},
             BeginEvent(t, a, m) PROVE Compatible'
  BY <1>2 DEF BeginEvent, Start
<1>3. ASSUME NEW t \in Txns, NEW a \in Agents, BeginSession(t, a) PROVE Compatible'
  BY <1>3 DEF BeginSession, Start
<1>4. ASSUME NEW t \in Txns, LockTarget(t) PROVE Compatible'
  BY <1>4 DEF LockTarget, Acquire
<1>5. ASSUME NEW t \in Txns, LockAgent(t) PROVE Compatible'
  BY <1>5 DEF LockAgent, Acquire
<1>6. ASSUME NEW t \in Txns, Check(t) PROVE Compatible'
  BY <1>6 DEF Check, End
<1>7. ASSUME NEW t \in Txns, Supersede(t) PROVE Compatible'
  BY <1>7 DEF Supersede, Acquire
<1>8. ASSUME NEW t \in Txns, Activate(t) PROVE Compatible'
  BY <1>8 DEF Activate, End
<1>9. ASSUME NEW t \in Txns, ShareAgent(t) PROVE Compatible'
  BY <1>9 DEF ShareAgent, Acquire
<1>10. ASSUME NEW t \in Txns, ShareManifest(t) PROVE Compatible'
  BY <1>10 DEF ShareManifest, Acquire
<1>11. ASSUME NEW t \in Txns, LockForSession(t) PROVE Compatible'
  BY <1>11 DEF LockForSession, Acquire
<1>12. ASSUME NEW t \in Txns,
             CommitEvent(t) \/ InsertSession(t) \/ DeadlockAbort(t) \/ Abort(t) PROVE Compatible'
  BY <1>12 DEF CommitEvent, InsertSession, DeadlockAbort, Abort, End
<1>13. CASE UNCHANGED vars
  BY <1>13 DEF vars
<1> QED
  BY <1>1, <1>2, <1>3, <1>4, <1>5, <1>6, <1>7, <1>8, <1>9, <1>10, <1>11, <1>12, <1>13
     DEF Next, Statement

\* A transaction takes its locks in the order of its statements.
LEMMA HeldPreserved == Locked /\ HeldSoFar /\ [Next]_vars => HeldSoFar'
<1> SUFFICES ASSUME Locked /\ HeldSoFar, [Next]_vars PROVE HeldSoFar'
  OBVIOUS
<1> USE DEF Locked, Base, TypeOK, HeldSoFar, Goto, work, Activating, Recording, Creating
<1>1. ASSUME NEW t \in Txns, NEW m \in Manifests, Begin(t, m) PROVE HeldSoFar'
  BY <1>1 DEF Begin, Start
<1>2. ASSUME NEW t \in Txns, NEW a \in Agents, NEW m \in Manifests \cup {None},
             BeginEvent(t, a, m) PROVE HeldSoFar'
  BY <1>2 DEF BeginEvent, Start
<1>3. ASSUME NEW t \in Txns, NEW a \in Agents, BeginSession(t, a) PROVE HeldSoFar'
  BY <1>3 DEF BeginSession, Start
<1>4. ASSUME NEW t \in Txns, LockTarget(t) PROVE HeldSoFar'
  BY <1>4 DEF LockTarget, Acquire
<1>5. ASSUME NEW t \in Txns, LockAgent(t) PROVE HeldSoFar'
  BY <1>5 DEF LockAgent, Acquire
<1>6. ASSUME NEW t \in Txns, Check(t) PROVE HeldSoFar'
  BY <1>6 DEF Check, End
<1>7. ASSUME NEW t \in Txns, Supersede(t) PROVE HeldSoFar'
  BY <1>7 DEF Supersede, Acquire
<1>8. ASSUME NEW t \in Txns, Activate(t) PROVE HeldSoFar'
  BY <1>8 DEF Activate, End
<1>9. ASSUME NEW t \in Txns, ShareAgent(t) PROVE HeldSoFar'
  BY <1>9 DEF ShareAgent, Acquire
<1>10. ASSUME NEW t \in Txns, ShareManifest(t) PROVE HeldSoFar'
  BY <1>10 DEF ShareManifest, Acquire
<1>11. ASSUME NEW t \in Txns, LockForSession(t) PROVE HeldSoFar'
  BY <1>11 DEF LockForSession, Acquire
<1>12. ASSUME NEW t \in Txns,
             CommitEvent(t) \/ InsertSession(t) \/ DeadlockAbort(t) \/ Abort(t) PROVE HeldSoFar'
  BY <1>12 DEF CommitEvent, InsertSession, DeadlockAbort, Abort, End
<1>13. CASE UNCHANGED vars
  BY <1>13 DEF vars
<1> QED
  BY <1>1, <1>2, <1>3, <1>4, <1>5, <1>6, <1>7, <1>8, <1>9, <1>10, <1>11, <1>12, <1>13
     DEF Next, Statement

\* Two activations past LockAgent are about different agents.
LEMMA AgentExclusive ==
  ASSUME Locked, NEW t \in Txns, NEW u \in Txns, pc[t] \in Switching, pc[u] \in Switching,
         agent[t] = agent[u]
  PROVE  t = u
  BY DEF Locked, AgentLocked, Compatible, Conflict

\* What an activation does: its agent's active manifest is replaced by the target.
LEMMA SwitchOf ==
  ASSUME IInv, NEW t \in Txns, Activate(t)
  PROVE  \E a \in Agents :
           /\ a = agent[t]
           /\ target[t] \in Manifests /\ ManifestAgent[target[t]] = a
           /\ status[target[t]] = "draft"
           /\ \/ current[t] = None /\ ActiveOf(a) = {}
              \/ current[t] \in Manifests /\ ActiveOf(a) = {current[t]}
           /\ ActiveOf(a)' = {target[t]}
           /\ \A b \in Agents \ {a} : ActiveOf(b)' = ActiveOf(b)
<1> USE DEF IInv, Locked, Base, Activate
<1>1. PICK a \in Agents : a = agent[t] /\ a = ManifestAgent[target[t]]
  BY ManifestAssumption DEF Informed, Activating
<1>2. target[t] \in Manifests /\ status[target[t]] = "draft"
  BY DEF Informed, StillTrue, Found, Activating
<1>3. \/ current[t] = None /\ ActiveOf(a) = {}
      \/ /\ current[t] \in Manifests /\ ManifestAgent[current[t]] = a
         /\ ActiveOf(a) = {current[t]}
  <2>1. CASE current[t] \in ActiveOf(a)
    <3>1. current[t] \in Manifests /\ ManifestAgent[current[t]] = a /\ status[current[t]] = "active"
      BY <2>1 DEF ActiveOf
    <3>2. \A m \in Manifests :
            ManifestAgent[m] = a /\ status[m] = "active" <=> m = current[t]
      BY <3>1 DEF AtMostOne
    <3> QED
      BY <3>1, <3>2, Zenon DEF ActiveOf
  <2> QED
    BY <1>1, <2>1 DEF StillTrue, Found
<1>4. \A m \in Manifests :
        status'[m] = IF m = target[t] THEN "active"
                     ELSE IF m = current[t] THEN "superseded" ELSE status[m]
  OBVIOUS
<1>5. \A m \in Manifests : ManifestAgent[m] = a /\ status'[m] = "active" <=> m = target[t]
  BY <1>1, <1>2, <1>3, <1>4 DEF ActiveOf
<1>6. ActiveOf(a)' = {target[t]}
  BY <1>2, <1>5, Zenon DEF ActiveOf
<1>7. ASSUME NEW b \in Agents \ {a} PROVE ActiveOf(b)' = ActiveOf(b)
  <2>1. \A m \in Manifests :
          ManifestAgent[m] = b => (status'[m] = "active" <=> status[m] = "active")
    BY <1>1, <1>2, <1>3, <1>4, ManifestAssumption
  <2> QED
    BY <2>1, Zenon DEF ActiveOf
<1> QED
  BY <1>1, <1>2, <1>3, <1>6, <1>7

\* What an activation has found stays true: nobody else switches its agent.
LEMMA StillTruePreserved == IInv /\ [Next]_vars => StillTrue'
<1> SUFFICES ASSUME IInv, [Next]_vars PROVE StillTrue'
  OBVIOUS
<1> USE DEF IInv, Locked, Base, TypeOK, Informed, StillTrue, Found, ActiveOf, Goto, work, Activating, Recording, Creating
<1>1. ASSUME NEW t \in Txns, NEW m \in Manifests, Begin(t, m) PROVE StillTrue'
  BY <1>1 DEF Begin, Start
<1>2. ASSUME NEW t \in Txns, NEW a \in Agents, NEW m \in Manifests \cup {None},
             BeginEvent(t, a, m) PROVE StillTrue'
  BY <1>2 DEF BeginEvent, Start
<1>3. ASSUME NEW t \in Txns, NEW a \in Agents, BeginSession(t, a) PROVE StillTrue'
  BY <1>3 DEF BeginSession, Start
<1>4. ASSUME NEW t \in Txns, LockTarget(t) PROVE StillTrue'
  BY <1>4 DEF LockTarget, Acquire
<1>5. ASSUME NEW t \in Txns, LockAgent(t) PROVE StillTrue'
  BY <1>5 DEF LockAgent, Acquire
<1>6. ASSUME NEW t \in Txns, Check(t) PROVE StillTrue'
  BY <1>6 DEF Check, End
<1>7. ASSUME NEW t \in Txns, Supersede(t) PROVE StillTrue'
  BY <1>7 DEF Supersede, Acquire
<1>8. ASSUME NEW t \in Txns, Activate(t) PROVE StillTrue'
  <2>1. PICK a \in Agents :
          /\ a = agent[t] /\ target[t] \in Manifests /\ ManifestAgent[target[t]] = a
          /\ \/ current[t] = None /\ ActiveOf(a) = {}
             \/ current[t] \in Manifests /\ ActiveOf(a) = {current[t]}
          /\ \A b \in Agents \ {a} : ActiveOf(b)' = ActiveOf(b)
    BY <1>8, SwitchOf
  <2> SUFFICES ASSUME NEW u \in Txns PROVE Found(u)'
    BY Zenon DEF StillTrue
  <2>0. CASE u = t
    BY <1>8, <2>0 DEF Activate, End
  <2>2. u # t => /\ pc'[u] = pc[u] /\ current'[u] = current[u]
                 /\ target'[u] = target[u] /\ agent'[u] = agent[u]
    BY <1>8 DEF Activate, End
  <2>3. ASSUME u # t, pc[u] \in {"supersede", "activate"}
        PROVE  /\ status'[target[u]] = "draft"
               /\ agent[u] \in Agents \ {a}
    <3>1. agent[u] # a
      BY <1>8, <2>1, <2>3, AgentExclusive DEF Switching, Activate
    <3>2. /\ target[u] \in Manifests /\ ManifestAgent[target[u]] = agent[u]
          /\ status[target[u]] = "draft"
      BY <2>3
    <3>3. target[u] # target[t]
      BY <2>1, <3>1, <3>2
    <3>4. target[u] # current[t]
      BY <1>8, <2>1, <3>1, <3>2, ManifestAssumption
    <3> QED
      BY <1>8, <3>1, <3>2, <3>3, <3>4, ManifestAssumption DEF Activate
  <2> QED
    BY <2>0, <2>1, <2>2, <2>3
<1>9. ASSUME NEW t \in Txns, ShareAgent(t) PROVE StillTrue'
  BY <1>9 DEF ShareAgent, Acquire
<1>10. ASSUME NEW t \in Txns, ShareManifest(t) PROVE StillTrue'
  BY <1>10 DEF ShareManifest, Acquire
<1>11. ASSUME NEW t \in Txns, LockForSession(t) PROVE StillTrue'
  BY <1>11 DEF LockForSession, Acquire
<1>12. ASSUME NEW t \in Txns,
             CommitEvent(t) \/ InsertSession(t) \/ DeadlockAbort(t) \/ Abort(t) PROVE StillTrue'
  BY <1>12 DEF CommitEvent, InsertSession, DeadlockAbort, Abort, End
<1>13. CASE UNCHANGED vars
  BY <1>13 DEF vars
<1> QED
  BY <1>1, <1>2, <1>3, <1>4, <1>5, <1>6, <1>7, <1>8, <1>9, <1>10, <1>11, <1>12, <1>13
     DEF Next, Statement

\* A manifest never goes back to draft.
LEMMA CitedPreserved == IInv /\ [Next]_vars => CitedWasActive'
<1> SUFFICES ASSUME IInv, [Next]_vars PROVE CitedWasActive'
  OBVIOUS
<1> USE DEF IInv, Locked, Base, TypeOK, Informed, CitedWasActive, Goto, work, Activating, Recording, Creating
<1>1. ASSUME NEW t \in Txns, NEW m \in Manifests, Begin(t, m) PROVE CitedWasActive'
  BY <1>1 DEF Begin, Start
<1>2. ASSUME NEW t \in Txns, NEW a \in Agents, NEW m \in Manifests \cup {None},
             BeginEvent(t, a, m) PROVE CitedWasActive'
  BY <1>2, ManifestAssumption DEF BeginEvent, Start
<1>3. ASSUME NEW t \in Txns, NEW a \in Agents, BeginSession(t, a) PROVE CitedWasActive'
  BY <1>3 DEF BeginSession, Start
<1>4. ASSUME NEW t \in Txns, LockTarget(t) PROVE CitedWasActive'
  BY <1>4 DEF LockTarget, Acquire
<1>5. ASSUME NEW t \in Txns, LockAgent(t) PROVE CitedWasActive'
  BY <1>5 DEF LockAgent, Acquire
<1>6. ASSUME NEW t \in Txns, Check(t) PROVE CitedWasActive'
  BY <1>6 DEF Check, End
<1>7. ASSUME NEW t \in Txns, Supersede(t) PROVE CitedWasActive'
  BY <1>7 DEF Supersede, Acquire
<1>8. ASSUME NEW t \in Txns, Activate(t) PROVE CitedWasActive'
  BY <1>8 DEF Activate, End
<1>9. ASSUME NEW t \in Txns, ShareAgent(t) PROVE CitedWasActive'
  BY <1>9 DEF ShareAgent, Acquire
<1>10. ASSUME NEW t \in Txns, ShareManifest(t) PROVE CitedWasActive'
  BY <1>10 DEF ShareManifest, Acquire
<1>11. ASSUME NEW t \in Txns, LockForSession(t) PROVE CitedWasActive'
  BY <1>11 DEF LockForSession, Acquire
<1>12. ASSUME NEW t \in Txns,
             CommitEvent(t) \/ InsertSession(t) \/ DeadlockAbort(t) \/ Abort(t) PROVE CitedWasActive'
  BY <1>12 DEF CommitEvent, InsertSession, DeadlockAbort, Abort, End
<1>13. CASE UNCHANGED vars
  BY <1>13 DEF vars
<1> QED
  BY <1>1, <1>2, <1>3, <1>4, <1>5, <1>6, <1>7, <1>8, <1>9, <1>10, <1>11, <1>12, <1>13
     DEF Next, Statement

\* Only a committing activation changes what is stored of manifests.
LEMMA StatusChanges == [Next]_vars => (\E t \in Txns : Activate(t)) \/ UNCHANGED status
  BY DEF Next, Statement, Begin, BeginEvent, BeginSession, Start, LockTarget, LockAgent, Check,
         Supersede, ShareAgent, ShareManifest, CommitEvent, LockForSession, InsertSession,
         DeadlockAbort, Abort, vars

\* A commit leaves one active manifest of its agent.
LEMMA AtMostOnePreserved == IInv /\ [Next]_vars => AtMostOne'
<1> SUFFICES ASSUME IInv, [Next]_vars, NEW b \in Agents,
                    NEW m \in ActiveOf(b)', NEW n \in ActiveOf(b)'
             PROVE  m = n
  BY ManifestAssumption DEF AtMostOne, ActiveOf
<1>1. ASSUME NEW t \in Txns, Activate(t) PROVE m = n
  <2>1. PICK a \in Agents : /\ ActiveOf(a)' = {target[t]}
                           /\ \A c \in Agents \ {a} : ActiveOf(c)' = ActiveOf(c)
    BY <1>1, SwitchOf
  <2> QED
    BY <2>1 DEF IInv, AtMostOne, ActiveOf
<1>2. CASE UNCHANGED status
  BY <1>2 DEF IInv, AtMostOne, ActiveOf
<1> QED
  BY <1>1, <1>2, StatusChanges

\* Every step preserves the inductive invariant.
LEMMA StepIInv == IInv /\ [Next]_vars => IInv'
  BY TypePreserved, InformedPreserved, LockPreserved, CompatiblePreserved, HeldPreserved,
     StillTruePreserved, CitedPreserved, AtMostOnePreserved DEF IInv, Locked, Base

\* Every reachable state satisfies the inductive invariant.
LEMMA IInvAlways == Spec => []IInv
<1>1. Init => IInv
  BY InitIInv
<1>2. IInv /\ [Next]_vars => IInv'
  BY StepIInv
<1> QED
  BY <1>1, <1>2, PTL DEF Spec

-----------------------------------------------------------------------------
(* Theorems *)

\* Every variable keeps its type.
THEOREM ManifestsTyped == Spec => []TypeOK
<1>1. IInv => TypeOK
  BY DEF IInv, Locked, Base
<1> QED
  BY <1>1, IInvAlways, PTL

\* The row locks alone keep an agent from two active manifests
\* (repositories.py:102).
THEOREM ActivationIsExclusive == Spec => []OneActive
<1>1. ASSUME IInv, NEW a \in Agents PROVE Cardinality(ActiveOf(a)) <= 1
  <2>1. CASE ActiveOf(a) = {}
    BY <2>1, FS_EmptySet
  <2>2. CASE ActiveOf(a) # {}
    <3>1. PICK m : m \in ActiveOf(a)
      BY <2>2
    <3>2. ActiveOf(a) = {m}
      BY <1>1, <3>1 DEF IInv, AtMostOne, ActiveOf
    <3> QED
      BY <3>2, FS_Singleton
  <2> QED
    BY <2>1, <2>2
<1>2. IInv => OneActive
  BY <1>1 DEF OneActive
<1> QED
  BY <1>2, IInvAlways, PTL

\* No switch, abort or deadlock leaves an agent without policy
\* (repositories.py:113-121).
THEOREM PolicyNeverWithdrawn == Spec => NeverWithoutPolicy
<1>1. IInv /\ [Next]_vars =>
        [\A a \in Agents : ActiveOf(a) # {} =>
           \E m \in Manifests : ManifestAgent[m] = a /\ status'[m] = "active"]_vars
  <2> SUFFICES ASSUME IInv, [Next]_vars, NEW a \in Agents, ActiveOf(a) # {}
               PROVE  \E m \in Manifests : ManifestAgent[m] = a /\ status'[m] = "active"
    OBVIOUS
  <2>1. ASSUME NEW t \in Txns, Activate(t) PROVE ActiveOf(a)' # {}
    BY <2>1, SwitchOf
  <2>2. UNCHANGED status => ActiveOf(a)' # {}
    BY DEF ActiveOf
  <2> QED
    BY <2>1, <2>2, StatusChanges DEF ActiveOf
<1> QED
  BY <1>1, IInvAlways, PTL DEF Spec, NeverWithoutPolicy

\* An audit event or a session that is in a deadlock shares it with an activation
\* that has nothing left to do, never with the rollout of a draft
\* (repositories.py:98).
THEOREM RolloutIsHarmless == Spec => []RolloutSparesAudit
<1>1. IInv => RolloutSparesAudit
  <2> SUFFICES ASSUME IInv, NEW t \in Txns, NEW u \in Txns,
                      pc[t] \in Recording \cup Creating, Blocks(u, t), Blocks(t, u)
               PROVE  /\ pc[u] \in Activating /\ target[u] = target[t]
                      /\ status[target[u]] # "draft"
    BY DEF RolloutSparesAudit
  <2> USE DEF IInv, Locked, Base
  <2>1. PICK k \in locks : k.txn = u /\ k.row = Wanted(t)[1] /\ u # t
    BY DEF Blocks, Holds
  <2>2. PICK l \in locks : l.txn = t /\ l.row = Wanted(u)[1] /\ Conflict(l.mode, Wanted(u)[2])
    BY DEF Blocks, Holds
  <2>3. /\ k.row \in Manifests \cup Agents /\ l.row \in Manifests \cup Agents
        /\ k.row # None /\ l.row # None
    BY <2>1, <2>2, ManifestAssumption DEF TypeOK, Rows
  \* t waits for the manifest it cites, and all it has is its share of the agent.
  <2>4. pc[t] = "shareManifest" /\ target[t] \in Manifests /\ status[target[t]] # "draft"
    BY <2>1, <2>2, <2>3, ManifestAssumption
       DEF HeldSoFar, Wanted, Recording, Creating, Informed, CitedWasActive
  <2>5. k.row = target[t] /\ l.row = agent[t] /\ l.mode = "keyShare" /\ agent[t] \in Agents
    BY <2>1, <2>2, <2>4 DEF HeldSoFar, Wanted, Informed, Recording
  \* u wants the agent, exclusively, and holds the manifest.
  <2>6. Wanted(u)[1] \in Agents /\ Wanted(u)[2] = "update"
    BY <2>2, <2>5 DEF Conflict, Wanted
  <2>7. pc[u] = "lockAgent"
    BY <2>1, <2>6, ManifestAssumption DEF Wanted, HeldSoFar, Informed, Activating
  <2> QED
    BY <2>1, <2>4, <2>5, <2>7 DEF HeldSoFar, Activating
<1> QED
  BY <1>1, IInvAlways, PTL

\* Overlapping activations, aborts and deadlocks implement a register that is
\* switched in one step and never back (repositories.py:97).
THEOREM ActivationIsAtomic == Spec => ImplementsRegister
<1>1. Init => Register!Init
  BY DEF Init, Register!Init, InForce, ActiveOf
<1>2. IInv /\ [Next]_vars => [Register!Next]_Register!vars
  <2> SUFFICES ASSUME IInv, [Next]_vars PROVE [Register!Next]_Register!vars
    OBVIOUS
  <2> DEFINE active == [a \in Agents |-> InForce(a)]
             retired == {m \in Manifests : status[m] = "superseded"}
  <2>1. ASSUME NEW t \in Txns, Activate(t) PROVE Register!Next
    <3>1. PICK a \in Agents, m \in Manifests :
            /\ m = target[t] /\ ManifestAgent[m] = a /\ status[m] = "draft"
            /\ \/ current[t] = None /\ ActiveOf(a) = {}
               \/ current[t] \in Manifests /\ ActiveOf(a) = {current[t]}
            /\ ActiveOf(a)' = {m}
            /\ \A b \in Agents \ {a} : ActiveOf(b)' = ActiveOf(b)
      BY <2>1, SwitchOf
    <3>2. InForce(a) = current[t] /\ current[t] # m
      BY <3>1, ManifestAssumption DEF InForce, ActiveOf
    <3>3. InForce(a)' = m
      BY <3>1 DEF InForce
    <3>4. ASSUME NEW b \in Agents \ {a} PROVE InForce(b)' = InForce(b)
      <4>1. ActiveOf(b)' = ActiveOf(b)
        BY <3>1
      <4>2. ActiveOf(b) = {} \/ \E n : ActiveOf(b) = {n}
        BY DEF IInv, AtMostOne, ActiveOf
      <4> QED
        BY <4>1, <4>2 DEF InForce
    <3>5. active' = [active EXCEPT ![a] = m]
      BY <3>3, <3>4
    <3>6. retired' = retired \cup ({current[t]} \ {None})
      BY <2>1, <3>1, <3>2, ManifestAssumption DEF Activate, IInv, Locked, Base, TypeOK
    <3>7. Register!Switch(a, m)
      BY <3>1, <3>2, <3>5, <3>6 DEF Register!Switch
    <3> QED
      BY <3>7 DEF Register!Next
  <2>2. CASE UNCHANGED status
    <3>1. \A a \in Agents : InForce(a)' = InForce(a)
      BY <2>2 DEF InForce, ActiveOf
    <3> QED
      BY <2>2, <3>1 DEF Register!vars
  <2> QED
    BY <2>1, <2>2, StatusChanges
<1> QED
  BY <1>1, <1>2, IInvAlways, PTL DEF Spec, ImplementsRegister, Register!Spec
================================================================================
