---------------------------- MODULE SessionsProofs ----------------------------
(***************************************************************************)
(* Theorems about Sessions, for every number of threads, agents and        *)
(* sessions and every TTL.                                                 *)
(***************************************************************************)
EXTENDS Sessions, TLAPS

(***************************************************************************)
(* Whole seconds.                                                          *)
(***************************************************************************)
\* A JWT loses less than a second, and never gains.
LEMMA Floor ==
  ASSUME NEW n \in Nat
  PROVE  /\ FloorSecond(n) \in Nat /\ FloorSecond(n) <= n
         /\ n - FloorSecond(n) < Second
  BY TimeAssumption DEF FloorSecond

\* Times of a TTL within its bounds.
LEMMA Scaled ==
  ASSUME NEW ttl \in Nat, ttl >= MinTtl, ttl <= MaxTtl
  PROVE  Second * ttl \in (Second * MinTtl)..(Second * MaxTtl)
  BY TimeAssumption


(***************************************************************************)
(* The inductive invariant, one idea per conjunct.                         *)
(***************************************************************************)
Creating == {"lock", "insert"}
Validating == {"readRow", "readAgent", "valid"}
Revoking == {"readRevoke", "writeRevoke"}

\* A session lives for the TTL that was asked for, within its bounds.
Lives(s) == s.expires - s.created \in (Second * MinTtl)..(Second * MaxTtl)

\* What a thread works with, at each of its statements.
WorkOK ==
  /\ work = [t \in Threads |-> work[t]]
  /\ \A t \in Threads :
       /\ pc[t] \in Creating => /\ work[t].agent \in Agents
                                /\ work[t].created \in Times /\ work[t].expires \in Times
                                /\ Lives(work[t])
       /\ pc[t] \in Validating \cup Revoking =>
            work[t].session \in SessionIds /\ row[work[t].session] # None

\* A row and its token appear together.
Issued == \A s \in SessionIds : row[s] = None <=> token[s] = None

\* A create past its check holds the agent's row, and the agent stays active.
Held == \A t \in Threads :
  pc[t] = "insert" => lock[work[t].agent] = t /\ status[work[t].agent] = "active"

\* A session that was revoked when its validation began is still revoked, and the
\* validation does not get past the row.
SeenRevoked == \A t \in Threads :
  /\ pc[t] \in Validating /\ work[t].wasRevoked => row[work[t].session].status = "revoked"
  /\ pc[t] \in {"readAgent", "valid"} => ~work[t].wasRevoked

Base == TypeOK /\ WorkOK /\ Issued
IInv == Base /\ Held /\ SeenRevoked /\ TokenEndsWithRow
-----------------------------------------------------------------------------

\* The invariant holds before any session exists.
LEMMA InitIInv == Init => IInv
  BY TimeAssumption, NoneAssumption
     DEF Init, IInv, Base, TypeOK, WorkOK, Issued, Held, SeenRevoked, TokenEndsWithRow,
         Stages, Creating, Validating, Revoking

\* What a create is given: times within the clock's range, a TTL within its bounds.
LEMMA Began ==
  ASSUME TypeOK, NEW a \in Agents, NEW ttl \in Ttls, ttl >= MinTtl, ttl <= MaxTtl
  PROVE  LET begun == [agent |-> a, created |-> now, expires |-> now + Second * ttl]
         IN /\ begun.agent \in Agents /\ begun.created \in Times /\ begun.expires \in Times
            /\ Lives(begun)
<1>1. ttl \in Nat /\ now \in Nat /\ now <= MaxTime
  BY TimeAssumption DEF TypeOK, Ttls
<1> DEFINE life == Second * ttl
           least == Second * MinTtl
           most == Second * MaxTtl
<1>2. life \in least..most /\ life \in Nat /\ least \in Nat /\ most \in Nat
  BY <1>1, Scaled, TimeAssumption
<1>3. Times = 0..(MaxTime + most) /\ \A s : Lives(s) <=> s.expires - s.created \in least..most
  BY DEF Times, Lives
<1> HIDE DEF life, least, most
<1>4. now \in 0..(MaxTime + most) /\ now + life \in 0..(MaxTime + most)
  BY <1>1, <1>2, TimeAssumption
<1>5. now + life - now \in least..most
  BY <1>1, <1>2
<1> DEFINE begun == [agent |-> a, created |-> now, expires |-> now + life]
<1>6. begun.agent = a /\ begun.created = now /\ begun.expires = now + life
  OBVIOUS
<1> HIDE DEF begun
<1>7. /\ begun.agent \in Agents /\ begun.created \in Times /\ begun.expires \in Times
      /\ Lives(begun)
  <2>1. begun.expires - begun.created \in least..most
    BY <1>1, <1>2, <1>5, <1>6
  <2>2. Lives(begun)
    BY <1>3, <2>1
  <2>3. begun.created \in Times /\ begun.expires \in Times
    BY <1>3, <1>4, <1>6
  <2> QED
    BY <1>6, <2>2, <2>3
<1> QED
  BY <1>7 DEF begun, life

\* A token carries the times of its row, rounded down.
LEMMA IssuedToken ==
  ASSUME NEW w, w.agent \in Agents, w.created \in Times, w.expires \in Times
  PROVE  /\ Issue(w) \in Tokens
         /\ Issue(w).exp <= w.expires /\ w.expires - Issue(w).exp < Second
<1> DEFINE most == MaxTime + Second * MaxTtl
<1>1. most \in Nat
  BY TimeAssumption
<1> HIDE DEF most
<1>2. Times = 0..most
  BY DEF Times, most
<1>3. w.created \in Nat /\ w.expires \in Nat
  BY <1>1, <1>2
<1>4. FloorSecond(w.created) \in Times /\ FloorSecond(w.expires) \in Times
  <2>1. /\ FloorSecond(w.created) \in Nat /\ FloorSecond(w.created) <= w.created
        /\ FloorSecond(w.expires) \in Nat /\ FloorSecond(w.expires) <= w.expires
    BY <1>3, Floor
  <2>2. w.created <= most /\ w.expires <= most
    BY <1>1, <1>2
  <2> QED
    BY <1>1, <1>2, <1>3, <2>1, <2>2
<1>5. FloorSecond(w.expires) <= w.expires /\ w.expires - FloorSecond(w.expires) < Second
  BY <1>3, Floor
<1> QED
  BY <1>4, <1>5 DEF Issue, Tokens

\* A revocation changes two columns of one row that is there.
LEMMA RevokedRow ==
  ASSUME Base, NEW t \in Threads, RevokeWrite(t)
  PROVE  LET s == work[t].session
             r == [row[s] EXCEPT !.status = "revoked", !.revokedAt = now]
         IN s \in SessionIds /\ row[s] \in Rows /\ r \in Rows /\ row' = [row EXCEPT ![s] = r]
<1> DEFINE s == work[t].session
<1>1. now \in Times
  <2> DEFINE most == Second * MaxTtl
  <2>1. most \in Nat
    BY TimeAssumption
  <2> HIDE DEF most
  <2>2. now \in 0..(MaxTime + most)
    BY <2>1, TimeAssumption DEF Base, TypeOK
  <2> QED
    BY <2>2 DEF Times, most
<1>2. s \in SessionIds /\ row[s] \in Rows
  BY DEF RevokeWrite, Base, TypeOK, WorkOK, Revoking
<1>3. row' = [row EXCEPT ![s] = [@ EXCEPT !.status = "revoked", !.revokedAt = now]]
  BY <1>2 DEF RevokeWrite
<1>4. [row[s] EXCEPT !.status = "revoked", !.revokedAt = now] \in Rows
  BY <1>1, <1>2 DEF Rows
<1> QED
  BY <1>2, <1>3, <1>4

\* A step keeps the types of the variables.
LEMMA TypePreserved == Base /\ [Next]_vars => TypeOK'
<1> SUFFICES ASSUME Base, [Next]_vars PROVE TypeOK'
  OBVIOUS
<1> USE DEF Base, TypeOK, WorkOK, Goto, End, tables, Stages, Creating, Validating, Revoking
<1>1. ASSUME NEW t \in Threads, NEW a \in Agents, NEW ttl \in Ttls, CreateBegin(t, a, ttl) PROVE TypeOK'
  BY <1>1 DEF CreateBegin
<1>2. ASSUME NEW t \in Threads, CreateLock(t) PROVE TypeOK'
  BY <1>2 DEF CreateLock
<1>3. ASSUME NEW t \in Threads, NEW s \in SessionIds, CreateInsert(t, s) PROVE TypeOK'
  <2>1. Issue(work[t]) \in Tokens
    BY <1>3, IssuedToken DEF CreateInsert
  <2>2. [agent |-> work[t].agent, status |-> "active", created |-> work[t].created,
         expires |-> work[t].expires, revokedAt |-> None] \in Rows
    BY <1>3 DEF CreateInsert, Rows
  <2> QED
    BY <1>3, <2>1, <2>2 DEF CreateInsert
<1>4. ASSUME NEW t \in Threads, NEW s \in SessionIds, NEW a \in Agents, ValidateDecode(t, s, a) PROVE TypeOK'
  BY <1>4 DEF ValidateDecode
<1>5. ASSUME NEW t \in Threads, ValidateReadRow(t) PROVE TypeOK'
  BY <1>5 DEF ValidateReadRow
<1>6. ASSUME NEW t \in Threads, ValidateReadAgent(t) PROVE TypeOK'
  BY <1>6 DEF ValidateReadAgent
<1>7. ASSUME NEW t \in Threads, ValidateReturn(t) PROVE TypeOK'
  BY <1>7 DEF ValidateReturn
<1>8. ASSUME NEW t \in Threads, NEW s \in SessionIds, RevokeBegin(t, s) PROVE TypeOK'
  BY <1>8 DEF RevokeBegin
<1>9. ASSUME NEW t \in Threads, RevokeRead(t) PROVE TypeOK'
  BY <1>9 DEF RevokeRead
<1>10. ASSUME NEW t \in Threads, RevokeWrite(t) PROVE TypeOK'
  BY <1>10, RevokedRow DEF RevokeWrite
<1>11. CASE Tick
  BY <1>11, TimeAssumption DEF Tick
<1>12. ASSUME NEW a \in Agents, SetStatus(a) PROVE TypeOK'
  BY <1>12, TimeAssumption DEF SetStatus
<1>13. CASE UNCHANGED vars
  BY <1>13 DEF vars
<1> QED
  BY <1>1, <1>2, <1>3, <1>4, <1>5, <1>6, <1>7, <1>8, <1>9, <1>10, <1>11, <1>12, <1>13
     DEF Next, Call, Proceed

\* A thread goes on with what it began with, and no row disappears.
LEMMA WorkPreserved == Base /\ [Next]_vars => WorkOK'
<1> SUFFICES ASSUME Base, [Next]_vars PROVE WorkOK'
  OBVIOUS
<1> USE DEF Base, TypeOK, WorkOK, Issued, Goto, End, tables, Stages, Creating, Validating, Revoking
<1>1. ASSUME NEW t \in Threads, NEW a \in Agents, NEW ttl \in Ttls, CreateBegin(t, a, ttl) PROVE WorkOK'
  <2> DEFINE begun == [agent |-> a, created |-> now, expires |-> now + Second * ttl]
  <2>1. /\ begun.agent \in Agents /\ begun.created \in Times /\ begun.expires \in Times
        /\ Lives(begun)
    BY <1>1, Began DEF CreateBegin
  <2>2. work' = [work EXCEPT ![t] = begun] /\ pc' = [pc EXCEPT ![t] = "lock"] /\ UNCHANGED row
    BY <1>1 DEF CreateBegin
  <2> HIDE DEF begun
  <2> QED
    BY <2>1, <2>2
<1>2. ASSUME NEW t \in Threads, CreateLock(t) PROVE WorkOK'
  BY <1>2 DEF CreateLock
<1>3. ASSUME NEW t \in Threads, NEW s \in SessionIds, CreateInsert(t, s) PROVE WorkOK'
  BY <1>3, NoneAssumption DEF CreateInsert
<1>4. ASSUME NEW t \in Threads, NEW s \in SessionIds, NEW a \in Agents, ValidateDecode(t, s, a) PROVE WorkOK'
  BY <1>4 DEF ValidateDecode
<1>5. ASSUME NEW t \in Threads, ValidateReadRow(t) PROVE WorkOK'
  BY <1>5 DEF ValidateReadRow
<1>6. ASSUME NEW t \in Threads, ValidateReadAgent(t) PROVE WorkOK'
  BY <1>6 DEF ValidateReadAgent
<1>7. ASSUME NEW t \in Threads, ValidateReturn(t) PROVE WorkOK'
  BY <1>7 DEF ValidateReturn
<1>8. ASSUME NEW t \in Threads, NEW s \in SessionIds, RevokeBegin(t, s) PROVE WorkOK'
  BY <1>8 DEF RevokeBegin
<1>9. ASSUME NEW t \in Threads, RevokeRead(t) PROVE WorkOK'
  BY <1>9 DEF RevokeRead
<1>10. ASSUME NEW t \in Threads, RevokeWrite(t) PROVE WorkOK'
  BY <1>10, RevokedRow, NoneAssumption DEF RevokeWrite
<1>11. CASE Tick
  BY <1>11 DEF Tick
<1>12. ASSUME NEW a \in Agents, SetStatus(a) PROVE WorkOK'
  BY <1>12 DEF SetStatus
<1>13. CASE UNCHANGED vars
  BY <1>13 DEF vars
<1> QED
  BY <1>1, <1>2, <1>3, <1>4, <1>5, <1>6, <1>7, <1>8, <1>9, <1>10, <1>11, <1>12, <1>13
     DEF Next, Call, Proceed

\* A row and its token appear in one step and never disappear.
LEMMA IssuedPreserved == Base /\ [Next]_vars => Issued'
<1> SUFFICES ASSUME Base, [Next]_vars PROVE Issued'
  OBVIOUS
<1> USE DEF Base, TypeOK, WorkOK, Issued, Goto, End, tables, Stages, Creating, Validating, Revoking
<1>1. ASSUME NEW t \in Threads, NEW a \in Agents, NEW ttl \in Ttls, CreateBegin(t, a, ttl) PROVE Issued'
  BY <1>1 DEF CreateBegin
<1>2. ASSUME NEW t \in Threads, CreateLock(t) PROVE Issued'
  BY <1>2 DEF CreateLock
<1>3. ASSUME NEW t \in Threads, NEW s \in SessionIds, CreateInsert(t, s) PROVE Issued'
  <2>1. Issue(work[t]) \in Tokens
    BY <1>3, IssuedToken DEF CreateInsert
  <2> QED
    BY <1>3, <2>1, NoneAssumption DEF CreateInsert, Rows
<1>4. ASSUME NEW t \in Threads, NEW s \in SessionIds, NEW a \in Agents, ValidateDecode(t, s, a) PROVE Issued'
  BY <1>4 DEF ValidateDecode
<1>5. ASSUME NEW t \in Threads, ValidateReadRow(t) PROVE Issued'
  BY <1>5 DEF ValidateReadRow
<1>6. ASSUME NEW t \in Threads, ValidateReadAgent(t) PROVE Issued'
  BY <1>6 DEF ValidateReadAgent
<1>7. ASSUME NEW t \in Threads, ValidateReturn(t) PROVE Issued'
  BY <1>7 DEF ValidateReturn
<1>8. ASSUME NEW t \in Threads, NEW s \in SessionIds, RevokeBegin(t, s) PROVE Issued'
  BY <1>8 DEF RevokeBegin
<1>9. ASSUME NEW t \in Threads, RevokeRead(t) PROVE Issued'
  BY <1>9 DEF RevokeRead
<1>10. ASSUME NEW t \in Threads, RevokeWrite(t) PROVE Issued'
  BY <1>10, RevokedRow, NoneAssumption DEF RevokeWrite
<1>11. CASE Tick
  BY <1>11 DEF Tick
<1>12. ASSUME NEW a \in Agents, SetStatus(a) PROVE Issued'
  BY <1>12 DEF SetStatus
<1>13. CASE UNCHANGED vars
  BY <1>13 DEF vars
<1> QED
  BY <1>1, <1>2, <1>3, <1>4, <1>5, <1>6, <1>7, <1>8, <1>9, <1>10, <1>11, <1>12, <1>13
     DEF Next, Call, Proceed

\* A suspension waits for the lock of a create, and only its thread gives it back.
LEMMA HeldPreserved == Base /\ Held /\ [Next]_vars => Held'
<1> SUFFICES ASSUME Base /\ Held, [Next]_vars PROVE Held'
  OBVIOUS
<1> USE DEF Base, TypeOK, WorkOK, Held, Goto, End, tables, Stages, Creating, Validating, Revoking
<1>1. ASSUME NEW t \in Threads, NEW a \in Agents, NEW ttl \in Ttls, CreateBegin(t, a, ttl) PROVE Held'
  BY <1>1 DEF CreateBegin
<1>2. ASSUME NEW t \in Threads, CreateLock(t) PROVE Held'
  BY <1>2, NoneAssumption DEF CreateLock
<1>3. ASSUME NEW t \in Threads, NEW s \in SessionIds, CreateInsert(t, s) PROVE Held'
  BY <1>3, NoneAssumption DEF CreateInsert
<1>4. ASSUME NEW t \in Threads, NEW s \in SessionIds, NEW a \in Agents, ValidateDecode(t, s, a) PROVE Held'
  BY <1>4 DEF ValidateDecode
<1>5. ASSUME NEW t \in Threads, ValidateReadRow(t) PROVE Held'
  BY <1>5 DEF ValidateReadRow
<1>6. ASSUME NEW t \in Threads, ValidateReadAgent(t) PROVE Held'
  BY <1>6 DEF ValidateReadAgent
<1>7. ASSUME NEW t \in Threads, ValidateReturn(t) PROVE Held'
  BY <1>7 DEF ValidateReturn
<1>8. ASSUME NEW t \in Threads, NEW s \in SessionIds, RevokeBegin(t, s) PROVE Held'
  BY <1>8 DEF RevokeBegin
<1>9. ASSUME NEW t \in Threads, RevokeRead(t) PROVE Held'
  BY <1>9 DEF RevokeRead
<1>10. ASSUME NEW t \in Threads, RevokeWrite(t) PROVE Held'
  BY <1>10 DEF RevokeWrite
<1>11. CASE Tick
  BY <1>11 DEF Tick
<1>12. ASSUME NEW a \in Agents, SetStatus(a) PROVE Held'
  BY <1>12, NoneAssumption DEF SetStatus
<1>13. CASE UNCHANGED vars
  BY <1>13 DEF vars
<1> QED
  BY <1>1, <1>2, <1>3, <1>4, <1>5, <1>6, <1>7, <1>8, <1>9, <1>10, <1>11, <1>12, <1>13
     DEF Next, Call, Proceed

\* A revoked session stays revoked.
LEMMA SeenPreserved == Base /\ SeenRevoked /\ [Next]_vars => SeenRevoked'
<1> SUFFICES ASSUME Base /\ SeenRevoked, [Next]_vars PROVE SeenRevoked'
  OBVIOUS
<1> USE DEF Base, TypeOK, WorkOK, Issued, SeenRevoked, Goto, End, tables, Stages, Creating, Validating, Revoking
<1>1. ASSUME NEW t \in Threads, NEW a \in Agents, NEW ttl \in Ttls, CreateBegin(t, a, ttl) PROVE SeenRevoked'
  BY <1>1 DEF CreateBegin
<1>2. ASSUME NEW t \in Threads, CreateLock(t) PROVE SeenRevoked'
  BY <1>2 DEF CreateLock
<1>3. ASSUME NEW t \in Threads, NEW s \in SessionIds, CreateInsert(t, s) PROVE SeenRevoked'
  BY <1>3 DEF CreateInsert
<1>4. ASSUME NEW t \in Threads, NEW s \in SessionIds, NEW a \in Agents, ValidateDecode(t, s, a) PROVE SeenRevoked'
  BY <1>4 DEF ValidateDecode
<1>5. ASSUME NEW t \in Threads, ValidateReadRow(t) PROVE SeenRevoked'
  BY <1>5 DEF ValidateReadRow
<1>6. ASSUME NEW t \in Threads, ValidateReadAgent(t) PROVE SeenRevoked'
  BY <1>6 DEF ValidateReadAgent
<1>7. ASSUME NEW t \in Threads, ValidateReturn(t) PROVE SeenRevoked'
  BY <1>7 DEF ValidateReturn
<1>8. ASSUME NEW t \in Threads, NEW s \in SessionIds, RevokeBegin(t, s) PROVE SeenRevoked'
  BY <1>8 DEF RevokeBegin
<1>9. ASSUME NEW t \in Threads, RevokeRead(t) PROVE SeenRevoked'
  BY <1>9 DEF RevokeRead
<1>10. ASSUME NEW t \in Threads, RevokeWrite(t) PROVE SeenRevoked'
  BY <1>10 DEF RevokeWrite
<1>11. CASE Tick
  BY <1>11 DEF Tick
<1>12. ASSUME NEW a \in Agents, SetStatus(a) PROVE SeenRevoked'
  BY <1>12 DEF SetStatus
<1>13. CASE UNCHANGED vars
  BY <1>13 DEF vars
<1> QED
  BY <1>1, <1>2, <1>3, <1>4, <1>5, <1>6, <1>7, <1>8, <1>9, <1>10, <1>11, <1>12, <1>13
     DEF Next, Call, Proceed

\* A row and its token keep their times.
LEMMA TokenPreserved == Base /\ TokenEndsWithRow /\ [Next]_vars => TokenEndsWithRow'
<1> SUFFICES ASSUME Base /\ TokenEndsWithRow, [Next]_vars PROVE TokenEndsWithRow'
  OBVIOUS
<1> USE DEF Base, TypeOK, TokenEndsWithRow, Goto, End, tables
<1>1. ASSUME NEW t \in Threads, NEW a \in Agents, NEW ttl \in Ttls, CreateBegin(t, a, ttl) PROVE TokenEndsWithRow'
  BY <1>1 DEF CreateBegin
<1>2. ASSUME NEW t \in Threads, CreateLock(t) PROVE TokenEndsWithRow'
  BY <1>2 DEF CreateLock
<1>3. ASSUME NEW t \in Threads, NEW s \in SessionIds, CreateInsert(t, s) PROVE TokenEndsWithRow'
  <2> DEFINE r == [agent |-> work[t].agent, status |-> "active", created |-> work[t].created,
                   expires |-> work[t].expires, revokedAt |-> None]
             issued == Issue(work[t])
             least == Second * MinTtl
             most == Second * MaxTtl
  <2>1. /\ issued.exp <= r.expires /\ r.expires - issued.exp < Second
        /\ r.expires - r.created \in least..most
    BY <1>3, IssuedToken DEF CreateInsert, WorkOK, Creating, Lives
  <2>2. row' = [row EXCEPT ![s] = r] /\ token' = [token EXCEPT ![s] = issued]
    BY <1>3 DEF CreateInsert
  <2>3. TokenEndsWithRow <=> \A z \in SessionIds : row[z] # None =>
          /\ token[z].exp <= row[z].expires /\ row[z].expires - token[z].exp < Second
          /\ row[z].expires - row[z].created \in least..most
    OBVIOUS
  <2> HIDE DEF r, issued, least, most, TokenEndsWithRow
  <2>4. \A z \in SessionIds : row'[z] # None =>
          /\ token'[z].exp <= row'[z].expires /\ row'[z].expires - token'[z].exp < Second
          /\ row'[z].expires - row'[z].created \in least..most
    BY <2>1, <2>2, <2>3
  <2> QED
    BY <2>4 DEF TokenEndsWithRow, least, most
<1>4. ASSUME NEW t \in Threads, NEW s \in SessionIds, NEW a \in Agents, ValidateDecode(t, s, a) PROVE TokenEndsWithRow'
  BY <1>4 DEF ValidateDecode
<1>5. ASSUME NEW t \in Threads, ValidateReadRow(t) PROVE TokenEndsWithRow'
  BY <1>5 DEF ValidateReadRow
<1>6. ASSUME NEW t \in Threads, ValidateReadAgent(t) PROVE TokenEndsWithRow'
  BY <1>6 DEF ValidateReadAgent
<1>7. ASSUME NEW t \in Threads, ValidateReturn(t) PROVE TokenEndsWithRow'
  BY <1>7 DEF ValidateReturn
<1>8. ASSUME NEW t \in Threads, NEW s \in SessionIds, RevokeBegin(t, s) PROVE TokenEndsWithRow'
  BY <1>8 DEF RevokeBegin
<1>9. ASSUME NEW t \in Threads, RevokeRead(t) PROVE TokenEndsWithRow'
  BY <1>9 DEF RevokeRead
<1>10. ASSUME NEW t \in Threads, RevokeWrite(t) PROVE TokenEndsWithRow'
  <2> DEFINE s == work[t].session
             r == [row[s] EXCEPT !.status = "revoked", !.revokedAt = now]
  <2>1. row' = [row EXCEPT ![s] = r] /\ row[s] \in Rows /\ s \in SessionIds
    BY <1>10, RevokedRow
  <2>2. r.expires = row[s].expires /\ r.created = row[s].created
    BY <2>1 DEF Rows
  <2>3. UNCHANGED token /\ row[s] # None
    BY <1>10, <2>1, NoneAssumption DEF RevokeWrite
  <2> HIDE DEF r, s
  <2> QED
    BY <2>1, <2>2, <2>3
<1>11. CASE Tick
  BY <1>11 DEF Tick
<1>12. ASSUME NEW a \in Agents, SetStatus(a) PROVE TokenEndsWithRow'
  BY <1>12 DEF SetStatus
<1>13. CASE UNCHANGED vars
  BY <1>13 DEF vars
<1> QED
  BY <1>1, <1>2, <1>3, <1>4, <1>5, <1>6, <1>7, <1>8, <1>9, <1>10, <1>11, <1>12, <1>13
     DEF Next, Call, Proceed

\* Together: the invariant of every reachable state.
LEMMA Invariant == Spec => []IInv
<1>1. IInv /\ [Next]_vars => IInv'
  BY TypePreserved, WorkPreserved, IssuedPreserved, HeldPreserved, SeenPreserved, TokenPreserved
     DEF IInv, Base
<1> QED
  BY <1>1, InitIInv, PTL DEF Spec
-----------------------------------------------------------------------------

\* The rows, the tokens and the threads have their types in every reachable state.
THEOREM SessionsTyped == Spec => []TypeOK
<1>1. IInv => TypeOK
  BY DEF IInv, Base
<1> QED
  BY <1>1, Invariant, PTL

\* A validation that began on a revoked session never succeeds.
THEOREM RevocationIsFinal == Spec => []RevokedNeverValidates
<1>1. IInv => RevokedNeverValidates
  BY DEF IInv, SeenRevoked, RevokedNeverValidates
<1> QED
  BY <1>1, Invariant, PTL

\* A token ends within the last second of its row and never after it, and the row lives
\* for a permitted TTL.
THEOREM TokenNeverOutlivesRow == Spec => []TokenEndsWithRow
<1>1. IInv => TokenEndsWithRow
  BY DEF IInv
<1> QED
  BY <1>1, Invariant, PTL

\* Only CreateInsert makes a row.
LEMMA RowsAppear ==
  ASSUME Base, [Next]_vars, NEW s \in SessionIds, row[s] = None, row'[s] # None
  PROVE  \E t \in Threads : /\ pc[t] = "insert"
                            /\ row'[s].agent = work[t].agent
<1> USE DEF Base, TypeOK, tables
<1>1. ASSUME NEW t \in Threads, NEW z \in SessionIds, CreateInsert(t, z)
      PROVE  pc[t] = "insert" /\ row'[s].agent = work[t].agent
  BY <1>1 DEF CreateInsert
<1>2. ASSUME NEW t \in Threads, RevokeWrite(t) PROVE FALSE
  BY <1>2, RevokedRow, NoneAssumption
<1>3. (\E t \in Threads : RevokeWrite(t) \/ \E z \in SessionIds : CreateInsert(t, z))
        \/ UNCHANGED row
  BY DEF Next, Call, Proceed, CreateBegin, CreateLock, ValidateDecode, ValidateReadRow,
         ValidateReadAgent, ValidateReturn, RevokeBegin, RevokeRead, Tick, SetStatus, vars
<1> QED
  BY <1>1, <1>2, <1>3

\* No session appears for an agent that is not active: the row lock holds off a
\* suspension between the check and the insert.
THEOREM SessionsOfActiveAgents == Spec => CreatedForActiveAgent
<1>1. ASSUME IInv, [Next]_vars
      PROVE  \A s \in SessionIds : row[s] = None /\ row'[s] # None =>
               status[row'[s].agent] = "active"
  BY <1>1, RowsAppear DEF IInv, Held
<1> QED
  BY <1>1, Invariant, PTL DEF Spec, CreatedForActiveAgent
=============================================================================
