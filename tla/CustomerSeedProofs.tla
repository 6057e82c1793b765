-------------------------- MODULE CustomerSeedProofs --------------------------
(***************************************************************************)
(* Theorems about CustomerSeed, for every number of customers, requests    *)
(* and runs of the seed.                                                   *)
(***************************************************************************)
EXTENDS CustomerSeed, TLAPS

(***************************************************************************)
(* The inductive invariant, one idea per conjunct.                         *)
(***************************************************************************)
Stages == {"free", "called", "read", "done", "lost"}
CustomerRows == [Fields -> Values]

Answers == {None, 200, 204, 404, 500}
RequestRecords == [pc : Stages, kind : Kinds \cup {None}, customer : Customers \cup {None},
                   change : Changes \cup {None}, read : CustomerRows \cup {None},
                   answer : Answers]

\* What a request carries, and that it is answered once, at its end.
Sound(q) ==
  /\ q \in RequestRecords
  /\ q.pc \in {"free", "called", "read"} => q.answer = None
  /\ q.pc \in {"called", "read"} =>
       q.customer \in Customers /\ (q.kind = "patch" => q.change \in Changes)
  /\ q.pc = "read" => q.read \in CustomerRows
RequestOK == req = [r \in Requests |-> req[r]] /\ \A r \in Requests : Sound(req[r])

\* TypeOK in parts: the requests' part follows from RequestOK.
SeedOK == seed \in [pc : {"idle", "run", "failed"}, next : 0..NumCustomers + 1,
                    fresh : BOOLEAN, adds : SUBSET Customers]
DataOK == /\ agent \in {None, "active", "suspended"}
          /\ manifest \in {None, "active", "superseded"}
          /\ rows \in [Customers -> CustomerRows \cup {None}]
          /\ up \in BOOLEAN /\ starts \in 0..MaxStarts

\* What the seed has found absent is still absent when it commits.
StillAbsent == seed.pc = "run" =>
  /\ seed.next > 0 => (seed.fresh <=> agent = None)
  /\ \A c \in seed.adds : rows[c] = None

Base == SeedOK /\ DataOK /\ RequestOK
IInv == Base /\ StillAbsent /\ NoHalfSeed
-----------------------------------------------------------------------------

\* The invariant holds before the first start.
LEMMA InitIInv == Init => IInv
<1> SUFFICES ASSUME Init PROVE IInv
  OBVIOUS
<1> USE DEF Init
<1>1. SeedOK
  BY SeedAssumption DEF SeedOK, Idle
<1>2. DataOK
  <2>1. rows \in [Customers -> CustomerRows \cup {None}] /\ starts \in 0..MaxStarts
    BY SeedAssumption
  <2> QED
    BY <2>1 DEF DataOK
<1>3. Sound(Free)
  BY DEF Sound, Free, RequestRecords, Stages, Answers
<1>4. RequestOK
  BY <1>3 DEF RequestOK
<1>5. StillAbsent /\ NoHalfSeed
  BY DEF StillAbsent, NoHalfSeed, Idle
<1> QED
  BY <1>1, <1>2, <1>4, <1>5 DEF IInv, Base

\* The parts make up the type invariant.
LEMMA Typed == Base => TypeOK
  BY DEF Base, SeedOK, DataOK, RequestOK, Sound, RequestRecords, Stages, Answers, CustomerRows,
         TypeOK

\* A change names fields of a customer and new values for them, null included.
LEMMA ChangeFields ==
  ASSUME NEW change \in Changes
  PROVE  /\ DOMAIN change \subseteq Fields
         /\ \A f \in DOMAIN change : change[f] \in Values \cup {None}
  BY DEF Changes

\* What a PATCH stores is a row if there was one, and nothing if there was none.
LEMMA WrittenRow ==
  ASSUME NEW r \in Requests, req[r].change \in Changes, Storable(r),
         NEW row \in CustomerRows \cup {None}
  PROVE  /\ Written(r, row) \in CustomerRows \cup {None}
         /\ Written(r, row) = None <=> row = None
         /\ row # None => \A f \in Fields :
              Written(r, row)[f] = IF f \in Dirty(r) THEN req[r].change[f] ELSE row[f]
  BY ChangeFields, NoneAssumption DEF Written, Dirty, Storable, CustomerRows

\* How a PATCH ends.
LEMMA PatchEffect ==
  ASSUME Base, NEW r \in Requests, Patch(r)
  PROVE  LET c == req[r].customer
         IN /\ c \in Customers /\ req[r].change \in Changes /\ req[r].pc = "read"
            /\ \/ rows' = rows /\ Dirty(r) = {} /\ req' = Answered(r, 200)
               \/ /\ Storable(r) /\ rows' = [rows EXCEPT ![c] = Written(r, rows[c])]
                  /\ req' = Answered(r, Flushed(rows'[c]))
                  /\ Flushed(rows'[c]) \in {200, 500}
               \/ rows' = rows /\ req' = Answered(r, 500)
            /\ UNCHANGED <<agent, manifest, seed, up, starts>>
  BY DEF Patch, Flushed, Base, RequestOK, Sound

\* The seed's transaction keeps its shape.
LEMMA SeedPreserved == Base /\ [Next]_vars => SeedOK'
<1> SUFFICES ASSUME Base, [Next]_vars PROVE SeedOK'
  OBVIOUS
<1> USE DEF Base, SeedOK
<1>1. CASE StartSeed
  <2>1. seed' = [pc |-> "run", next |-> 0, fresh |-> FALSE, adds |-> {}]
    BY <1>1 DEF StartSeed, Idle
  <2> QED
    BY <2>1, SeedAssumption
<1>2. CASE SeedPolicy
  <2>1. 1 \in 0..NumCustomers + 1 /\ (agent = None) \in BOOLEAN
    BY SeedAssumption
  <2>2. seed' = [pc |-> seed.pc, next |-> 1, fresh |-> agent = None, adds |-> seed.adds]
    BY <1>2 DEF SeedPolicy
  <2> QED
    BY <2>1, <2>2
<1>3. CASE SeedCustomer
  <2> DEFINE c == seed.next
  <2>1. c \in Customers /\ c + 1 \in 0..NumCustomers + 1 /\ 0 \in 0..NumCustomers + 1
    BY <1>3, SeedAssumption DEF SeedCustomer, Customers
  <2>2. \/ seed' = [seed EXCEPT !.next = c + 1, !.adds = seed.adds \cup {c}]
        \/ seed' = [pc |-> "failed", next |-> 0, fresh |-> FALSE, adds |-> {}]
        \/ seed' = [seed EXCEPT !.next = c + 1]
    BY <1>3 DEF SeedCustomer, Idle
  <2>3. seed.adds \cup {c} \in SUBSET Customers
    BY <2>1
  <2>4. CASE seed' = [seed EXCEPT !.next = c + 1, !.adds = seed.adds \cup {c}]
    BY <2>1, <2>3, <2>4
  <2>5. CASE seed' = [pc |-> "failed", next |-> 0, fresh |-> FALSE, adds |-> {}]
    BY <2>1, <2>5
  <2>6. CASE seed' = [seed EXCEPT !.next = c + 1]
    BY <2>1, <2>6
  <2> QED
    BY <2>2, <2>4, <2>5, <2>6
<1>4. CASE SeedCommit
  BY <1>4, SeedAssumption DEF SeedCommit, SeedRow, Idle
<1>5. CASE Stop
  BY <1>5, SeedAssumption DEF Stop, Idle
<1>6. ASSUME NEW r \in Requests, NEW kind \in Kinds, NEW c \in Customers,
             NEW change \in Changes \cup {None}, Call(r, kind, c, change) PROVE SeedOK'
  BY <1>6 DEF Call, Free
<1>7. ASSUME NEW r \in Requests, Select(r) PROVE SeedOK'
  BY <1>7 DEF Select, Answered
<1>8. ASSUME NEW r \in Requests, Patch(r) PROVE SeedOK'
  BY <1>8 DEF Patch, Answered
<1>9. ASSUME NEW r \in Requests, Delete(r) PROVE SeedOK'
  BY <1>9 DEF Delete, Answered
<1>10. CASE Suspend
  BY <1>10 DEF Suspend
<1>11. CASE Supersede
  BY <1>11 DEF Supersede
<1>12. CASE UNCHANGED vars
  BY <1>12 DEF vars
<1> QED
  BY <1>1, <1>2, <1>3, <1>4, <1>5, <1>6, <1>7, <1>8, <1>9, <1>10, <1>11, <1>12
     DEF Next

\* The tables keep their types; no null is stored in a customer.
LEMMA DataPreserved == Base /\ [Next]_vars => DataOK'
<1> SUFFICES ASSUME Base, [Next]_vars PROVE DataOK'
  OBVIOUS
<1> USE DEF Base, DataOK
<1>1. CASE StartSeed
  BY <1>1, SeedAssumption DEF StartSeed, Idle
<1>2. CASE SeedPolicy
  BY <1>2 DEF SeedPolicy
<1>3. CASE SeedCustomer
  BY <1>3 DEF SeedCustomer, Idle
<1>4. CASE SeedCommit
  <2>1. SeedRow \in CustomerRows
    BY SeedAssumption DEF SeedRow, CustomerRows
  <2> QED
    BY <1>4, <2>1 DEF SeedCommit
<1>5. CASE Stop
  BY <1>5 DEF Stop, Idle
<1>6. ASSUME NEW r \in Requests, NEW kind \in Kinds, NEW c \in Customers,
             NEW change \in Changes \cup {None}, Call(r, kind, c, change) PROVE DataOK'
  BY <1>6 DEF Call, Free
<1>7. ASSUME NEW r \in Requests, Select(r) PROVE DataOK'
  BY <1>7 DEF Select, Answered
<1>8. ASSUME NEW r \in Requests, Patch(r) PROVE DataOK'
  <2>1. rows' \in [Customers -> CustomerRows \cup {None}]
    BY <1>8, PatchEffect, WrittenRow
  <2> QED
    BY <1>8, <2>1, PatchEffect
<1>9. ASSUME NEW r \in Requests, Delete(r) PROVE DataOK'
  BY <1>9 DEF Delete, Answered
<1>10. CASE Suspend
  BY <1>10 DEF Suspend
<1>11. CASE Supersede
  BY <1>11 DEF Supersede
<1>12. CASE UNCHANGED vars
  BY <1>12 DEF vars
<1> QED
  BY <1>1, <1>2, <1>3, <1>4, <1>5, <1>6, <1>7, <1>8, <1>9, <1>10, <1>11, <1>12
     DEF Next

\* An answer ends a request.
LEMMA AnsweredSound ==
  ASSUME RequestOK, NEW r \in Requests, NEW status \in Answers, req' = Answered(r, status)
  PROVE  RequestOK' /\ req'[r].answer = status /\ \A q \in Requests \ {r} : req'[q] = req[q]
<1> DEFINE q == [req[r] EXCEPT !.pc = "done", !.answer = status]
<1>1. Sound(q)
  BY DEF RequestOK, Sound, RequestRecords, Stages
<1>2. req' = [req EXCEPT ![r] = q]
  BY DEF Answered, RequestOK, Sound, RequestRecords
<1>3. q.answer = status
  BY DEF RequestOK, Sound, RequestRecords
<1> HIDE DEF q
<1> QED
  BY <1>1, <1>2, <1>3 DEF RequestOK

\* A request carries what it needs and is answered once.
LEMMA RequestPreserved == Base /\ [Next]_vars => RequestOK'
<1> SUFFICES ASSUME Base, [Next]_vars PROVE RequestOK'
  OBVIOUS
<1> USE DEF Base
<1>1. CASE StartSeed
  BY <1>1 DEF StartSeed, RequestOK
<1>2. CASE SeedPolicy
  BY <1>2 DEF SeedPolicy, RequestOK
<1>3. CASE SeedCustomer
  BY <1>3 DEF SeedCustomer, RequestOK
<1>4. CASE SeedCommit
  BY <1>4 DEF SeedCommit, RequestOK
<1>5. CASE Stop
  <2>1. ASSUME NEW r \in Requests PROVE Sound(req'[r])
    BY <1>5, <2>1 DEF Stop, RequestOK, Sound, RequestRecords, Stages
  <2> QED
    BY <1>5, <2>1 DEF Stop, RequestOK
<1>6. ASSUME NEW r \in Requests, NEW kind \in Kinds, NEW c \in Customers,
             NEW change \in Changes \cup {None}, Call(r, kind, c, change) PROVE RequestOK'
  <2> DEFINE q == [Free EXCEPT !.pc = "called", !.kind = kind, !.customer = c, !.change = change]
  <2>1. Sound(q)
    BY <1>6, NoneAssumption DEF Call, Free, Sound, RequestRecords, Stages, Answers
  <2>2. req' = [req EXCEPT ![r] = q]
    BY <1>6 DEF Call
  <2> HIDE DEF q
  <2> QED
    BY <2>1, <2>2 DEF RequestOK
<1>7. ASSUME NEW r \in Requests, Select(r) PROVE RequestOK'
  <2> DEFINE row == rows[req[r].customer]
             q == [req[r] EXCEPT !.pc = "read", !.read = row]
  <2>1. CASE req' = Answered(r, 404) \/ req' = Answered(r, 200)
    BY <2>1, AnsweredSound DEF Answers
  <2>2. CASE row # None /\ req' = [req EXCEPT ![r].pc = "read", ![r].read = row]
    <3>1. row \in CustomerRows
      BY <1>7, <2>2 DEF Select, RequestOK, Sound, DataOK
    <3>2. Sound(q)
      BY <1>7, <3>1 DEF Select, RequestOK, Sound, RequestRecords, Stages
    <3>3. req' = [req EXCEPT ![r] = q]
      BY <2>2 DEF RequestOK, Sound, RequestRecords
    <3> HIDE DEF q
    <3> QED
      BY <3>2, <3>3 DEF RequestOK
  <2> QED
    BY <1>7, <2>1, <2>2 DEF Select
<1>8. ASSUME NEW r \in Requests, Patch(r) PROVE RequestOK'
  BY <1>8, PatchEffect, AnsweredSound DEF Answers
<1>9. ASSUME NEW r \in Requests, Delete(r) PROVE RequestOK'
  BY <1>9, AnsweredSound DEF Delete, Answers
<1>10. CASE Suspend
  BY <1>10 DEF Suspend, RequestOK
<1>11. CASE Supersede
  BY <1>11 DEF Supersede, RequestOK
<1>12. CASE UNCHANGED vars
  BY <1>12 DEF vars, RequestOK
<1> QED
  BY <1>1, <1>2, <1>3, <1>4, <1>5, <1>6, <1>7, <1>8, <1>9, <1>10, <1>11, <1>12
     DEF Next

\* A PATCH adds no customer.
LEMMA PatchAddsNone ==
  ASSUME Base, NEW r \in Requests, Patch(r)
  PROVE  \A c \in Customers : rows[c] = None => rows'[c] = None
<1> DEFINE row == rows[req[r].customer]
<1>1. req[r].customer \in Customers /\ row \in CustomerRows \cup {None}
  BY PatchEffect DEF Base, DataOK
<1> QED
  BY <1>1, PatchEffect, WrittenRow DEF Base, DataOK

\* No CRM request adds a customer, and nobody else an agent, while the seed runs.
LEMMA AbsentPreserved == Base /\ StillAbsent /\ [Next]_vars => StillAbsent'
<1> SUFFICES ASSUME Base /\ StillAbsent, [Next]_vars PROVE StillAbsent'
  OBVIOUS
<1> USE DEF Base, StillAbsent, SeedOK, DataOK
<1>1. CASE StartSeed
  BY <1>1 DEF StartSeed, Idle
<1>2. CASE SeedPolicy
  BY <1>2 DEF SeedPolicy
<1>3. CASE SeedCustomer
  <2> DEFINE c == seed.next
  <2>1. c \in Nat /\ c > 0 /\ UNCHANGED <<agent, rows>>
    BY <1>3, SeedAssumption DEF SeedCustomer, Customers
  <2>2. \/ /\ seed' = [seed EXCEPT !.next = c + 1, !.adds = seed.adds \cup {c}]
           /\ rows[c] = None
        \/ seed' = [pc |-> "failed", next |-> 0, fresh |-> FALSE, adds |-> {}]
        \/ seed' = [seed EXCEPT !.next = c + 1]
    BY <1>3 DEF SeedCustomer, Idle
  <2>3. seed.pc = "run"
    BY <1>3 DEF SeedCustomer
  <2>4. CASE rows[c] = None /\ seed' = [seed EXCEPT !.next = c + 1, !.adds = seed.adds \cup {c}]
    BY <2>1, <2>3, <2>4
  <2>5. CASE seed' = [pc |-> "failed", next |-> 0, fresh |-> FALSE, adds |-> {}]
    BY <2>5
  <2>6. CASE seed' = [seed EXCEPT !.next = c + 1]
    BY <2>1, <2>3, <2>6
  <2> QED
    BY <2>2, <2>4, <2>5, <2>6
<1>4. CASE SeedCommit
  BY <1>4 DEF SeedCommit, SeedRow, Idle
<1>5. CASE Stop
  BY <1>5 DEF Stop, Idle
<1>6. ASSUME NEW r \in Requests, NEW kind \in Kinds, NEW c \in Customers,
             NEW change \in Changes \cup {None}, Call(r, kind, c, change) PROVE StillAbsent'
  BY <1>6 DEF Call, Free
<1>7. ASSUME NEW r \in Requests, Select(r) PROVE StillAbsent'
  BY <1>7 DEF Select, Answered
<1>8. ASSUME NEW r \in Requests, Patch(r) PROVE StillAbsent'
  BY <1>8, PatchEffect, PatchAddsNone
<1>9. ASSUME NEW r \in Requests, Delete(r) PROVE StillAbsent'
  BY <1>9 DEF Delete, RequestOK, Sound
<1>10. CASE Suspend
  BY <1>10, NoneAssumption DEF Suspend
<1>11. CASE Supersede
  BY <1>11 DEF Supersede
<1>12. CASE UNCHANGED vars
  BY <1>12 DEF vars
<1> QED
  BY <1>1, <1>2, <1>3, <1>4, <1>5, <1>6, <1>7, <1>8, <1>9, <1>10, <1>11, <1>12
     DEF Next

\* The seed's rows appear together and before the services start.
LEMMA WholePreserved == IInv /\ [Next]_vars => NoHalfSeed'
<1> SUFFICES ASSUME IInv, [Next]_vars PROVE NoHalfSeed'
  OBVIOUS
<1> USE DEF IInv, Base, DataOK, StillAbsent, NoHalfSeed
<1>1. CASE StartSeed
  BY <1>1 DEF StartSeed, Idle
<1>2. CASE SeedPolicy
  BY <1>2 DEF SeedPolicy
<1>3. CASE SeedCustomer
  BY <1>3 DEF SeedCustomer, Idle
<1>4. CASE SeedCommit
  BY <1>4, NoneAssumption, SeedAssumption DEF SeedCommit, SeedRow, Idle
<1>5. CASE Stop
  BY <1>5 DEF Stop, Idle
<1>6. ASSUME NEW r \in Requests, NEW kind \in Kinds, NEW c \in Customers,
             NEW change \in Changes \cup {None}, Call(r, kind, c, change) PROVE NoHalfSeed'
  BY <1>6 DEF Call, Free
<1>7. ASSUME NEW r \in Requests, Select(r) PROVE NoHalfSeed'
  BY <1>7 DEF Select, Answered
<1>8. ASSUME NEW r \in Requests, Patch(r) PROVE NoHalfSeed'
  BY <1>8, PatchEffect, PatchAddsNone
<1>9. ASSUME NEW r \in Requests, Delete(r) PROVE NoHalfSeed'
  BY <1>9 DEF Delete, RequestOK, Sound
<1>10. CASE Suspend
  BY <1>10, NoneAssumption DEF Suspend
<1>11. CASE Supersede
  BY <1>11, NoneAssumption DEF Supersede
<1>12. CASE UNCHANGED vars
  BY <1>12 DEF vars
<1> QED
  BY <1>1, <1>2, <1>3, <1>4, <1>5, <1>6, <1>7, <1>8, <1>9, <1>10, <1>11, <1>12
     DEF Next

\* Together: the invariant of every reachable state.
LEMMA Invariant == Spec => []IInv
<1>1. IInv /\ [Next]_vars => IInv'
  BY SeedPreserved, DataPreserved, RequestPreserved, AbsentPreserved, WholePreserved
     DEF IInv, Base
<1> QED
  BY <1>1, InitIInv, PTL DEF Spec
-----------------------------------------------------------------------------

\* The tables, the seed's transaction and the answers have their types in every
\* reachable state; no null is stored in a customer.
THEOREM CustomersTyped == Spec => []TypeOK
<1>1. IInv => TypeOK
  BY Typed DEF IInv
<1> QED
  BY <1>1, Invariant, PTL

\* However the seed is interrupted, its rows are there together or not at all, and no
\* service answers before they are.
THEOREM SeedIsAtomic == Spec => []NoHalfSeed
<1>1. IInv => NoHalfSeed
  BY DEF IInv
<1> QED
  BY <1>1, Invariant, PTL

\* The steps of the seed that change the data: only its commit.
LEMMA SeedSteps ==
  [Next]_vars => UNCHANGED seed \/ SeedCommit \/ UNCHANGED <<agent, manifest, rows>>
  BY DEF Next, StartSeed, SeedPolicy, SeedCustomer, Stop, Call, Select, Patch, Delete, Suspend,
         Supersede, vars

\* Running the seed again neither overwrites an edited customer nor reinstates a
\* suspended agent or a superseded manifest.
THEOREM SeedSparesEdits == Spec => SeedOverwritesNothing
<1>1. ASSUME IInv, [Next]_vars, seed' # seed
      PROVE  /\ \A c \in Customers : rows[c] # None => rows'[c] = rows[c]
             /\ agent # None => agent' = agent
             /\ manifest # None => manifest' = manifest
  <2>1. CASE SeedCommit
    BY <1>1, <2>1, SeedAssumption
       DEF SeedCommit, IInv, Base, DataOK, StillAbsent, NoHalfSeed
  <2> QED
    BY <1>1, <2>1, SeedSteps
<1> QED
  BY <1>1, Invariant, PTL DEF Spec, SeedOverwritesNothing

\* Only its own flush answers a PATCH that has read its row.
LEMMA PatchAnswers ==
  ASSUME Base, [Next]_vars, NEW r \in Requests,
         req[r].kind = "patch", req[r].pc = "read", req'[r].answer = 200
  PROVE  Patch(r)
<1>1. req[r].answer # 200
  BY NoneAssumption DEF Base, RequestOK, Sound
<1>2. ASSUME req'[r].answer # req[r].answer PROVE Patch(r)
  <2>1. ASSUME NEW q \in Requests, Select(q) \/ Patch(q) \/ Delete(q) PROVE q = r
    <3>1. (\E status \in Answers : req' = Answered(q, status)) \/ req'[r].answer = req[r].answer
      BY <2>1 DEF Select, Patch, Flushed, Delete, Answers, Base, RequestOK, Sound, RequestRecords
    <3> QED
      BY <1>2, <3>1, AnsweredSound DEF Base
  <2>2. CASE Stop
    BY <1>2, <2>2 DEF Stop
  <2>3. ASSUME NEW q \in Requests, NEW kind \in Kinds, NEW c \in Customers,
               NEW change \in Changes \cup {None}, Call(q, kind, c, change)
        PROVE  FALSE
    BY <1>2, <2>3 DEF Call
  <2> QED
    <3>1. ASSUME NEW q \in Requests, Select(q) \/ Patch(q) \/ Delete(q) PROVE Patch(r)
      <4>1. q = r
        BY <2>1, <3>1
      <4> QED
        BY <3>1, <4>1 DEF Select, Delete
    <3>2. CASE StartSeed \/ SeedPolicy \/ SeedCustomer \/ SeedCommit \/ Suspend \/ Supersede
                 \/ UNCHANGED vars
      BY <1>2, <3>2
         DEF StartSeed, SeedPolicy, SeedCustomer, SeedCommit, Suspend, Supersede, vars
    <3> QED
      BY <2>2, <2>3, <3>1, <3>2 DEF Next
<1> QED
  BY <1>1, <1>2

\* A flush that changes a field of its customer has the field in its change and answers 200.
LEMMA PatchSendsIt ==
  ASSUME Base, NEW r \in Requests, Patch(r), NEW c \in Customers, NEW f \in Fields,
         rows[c] # None, rows'[c] # None, rows'[c][f] # rows[c][f]
  PROVE  /\ req[r].pc = "read" /\ req[r].kind = "patch" /\ req[r].customer = c
         /\ f \in DOMAIN req[r].change /\ req[r].change[f] = rows'[c][f]
         /\ req'[r].answer = 200
<1> DEFINE d == req[r].customer
<1>1. d \in Customers /\ req[r].change \in Changes /\ rows[c] \in CustomerRows
      /\ req[r].pc = "read" /\ req[r].kind = "patch"
  BY PatchEffect DEF Base, DataOK, Patch
<1>2. /\ Storable(r) /\ rows' = [rows EXCEPT ![d] = Written(r, rows[d])]
      /\ req' = Answered(r, Flushed(rows'[d]))
  BY PatchEffect
<1>3. c = d /\ rows'[c] = Written(r, rows[c])
  BY <1>1, <1>2 DEF Base, DataOK
<1>4. f \in Dirty(r) /\ rows'[c][f] = req[r].change[f]
  BY <1>1, <1>2, <1>3, WrittenRow
<1>5. req'[r].answer = 200
  <2>1. req' = Answered(r, 200)
    BY <1>2, <1>3 DEF Flushed
  <2> QED
    BY <2>1, AnsweredSound DEF Base, Answers
<1> QED
  BY <1>1, <1>3, <1>4, <1>5 DEF Dirty

\* A field of a stored customer changes only to what a PATCH sent for it, and that PATCH
\* answers 200: the seed, a DELETE and a PATCH of other fields leave it as it is.
THEOREM EditsKeepToTheirFields == Spec => OnlySentFieldsChange
<1> DEFINE Sent(c, f) ==
      \E r \in Requests :
        /\ req[r].pc = "read" /\ req[r].kind = "patch" /\ req[r].customer = c
        /\ f \in DOMAIN req[r].change /\ req[r].change[f] = rows'[c][f]
        /\ req'[r].answer = 200
<1>1. ASSUME IInv, [Next]_vars, NEW c \in Customers, NEW f \in Fields,
             rows[c] # None, rows'[c] # None, rows'[c][f] # rows[c][f]
      PROVE  Sent(c, f)
  <2>1. CASE SeedCommit
    BY <1>1, <2>1 DEF SeedCommit, IInv, StillAbsent
  <2>2. ASSUME NEW r \in Requests, Delete(r) PROVE FALSE
    BY <1>1, <2>2 DEF Delete, IInv, Base, DataOK, RequestOK, Sound
  <2>3. ASSUME NEW r \in Requests, Patch(r) PROVE Sent(c, f)
    BY <1>1, <2>3, PatchSendsIt DEF IInv
  <2>4. rows' = rows \/ SeedCommit \/ \E r \in Requests : Patch(r) \/ Delete(r)
    BY <1>1 DEF Next, StartSeed, SeedPolicy, SeedCustomer, Stop, Call, Select, Suspend,
                Supersede, vars
  <2> HIDE DEF Sent
  <2> QED
    BY <1>1, <2>1, <2>2, <2>3, <2>4
<1>2. ASSUME IInv, [Next]_vars
      PROVE  \A c \in Customers, f \in Fields :
               rows[c] # None /\ rows'[c] # None /\ rows'[c][f] # rows[c][f] => Sent(c, f)
  BY <1>1, <1>2
<1> QED
  BY <1>2, Invariant, PTL DEF Spec, OnlySentFieldsChange

\* A PATCH that answers 200 has each field it sent in the table, except one whose value the
\* SELECT returned and whose row was changed or deleted since.
THEOREM SuccessIsStored == Spec => SuccessMeansStored
<1> DEFINE Kept(r, f) ==
      LET c == req[r].customer
      IN \/ rows'[c] # None /\ rows'[c][f] = req[r].change[f]
         \/ req[r].change[f] = req[r].read[f] /\ rows[c] # req[r].read
<1>1. ASSUME IInv, [Next]_vars, NEW r \in Requests,
             req[r].kind = "patch", req[r].pc = "read", req'[r].answer = 200,
             NEW f \in DOMAIN req[r].change
      PROVE  Kept(r, f)
  <2> DEFINE c == req[r].customer
  <2>1. Patch(r) /\ Base
    BY <1>1, PatchAnswers DEF IInv
  <2>2. /\ c \in Customers /\ rows[c] \in CustomerRows \cup {None}
        /\ req[r].change \in Changes /\ f \in Fields /\ req[r].read \in CustomerRows
    BY <1>1, <2>1, PatchEffect, ChangeFields DEF Base, DataOK, RequestOK, Sound
  <2>3. req' # Answered(r, 500)
    BY <1>1, <2>1, AnsweredSound DEF Base, Answers
  <2>4. \/ rows' = rows /\ Dirty(r) = {}
        \/ Storable(r) /\ rows' = [rows EXCEPT ![c] = Written(r, rows[c])] /\ rows'[c] # None
    BY <2>1, <2>3 DEF Patch, Flushed
  <2>5. CASE rows' = rows /\ Dirty(r) = {}
    <3>1. req[r].change[f] = req[r].read[f]
      BY <2>5 DEF Dirty
    <3>2. CASE rows[c] = req[r].read
      BY <2>2, <2>5, <3>1, <3>2, NoneAssumption DEF CustomerRows
    <3> QED
      BY <3>1, <3>2
  <2>6. CASE Storable(r) /\ rows' = [rows EXCEPT ![c] = Written(r, rows[c])] /\ rows'[c] # None
    <3>1. rows'[c] = Written(r, rows[c]) /\ rows[c] # None
      BY <2>1, <2>2, <2>6, WrittenRow DEF Base, DataOK
    <3>2. CASE f \in Dirty(r)
      BY <2>2, <2>6, <3>1, <3>2, WrittenRow
    <3>3. CASE f \notin Dirty(r)
      <4>1. req[r].change[f] = req[r].read[f] /\ rows'[c][f] = rows[c][f]
        BY <2>2, <2>6, <3>1, <3>3, WrittenRow DEF Dirty
      <4> QED
        BY <2>6, <4>1
    <3> QED
      BY <3>2, <3>3
  <2> QED
    BY <2>4, <2>5, <2>6
<1>2. ASSUME IInv, [Next]_vars
      PROVE  \A r \in Requests :
               req[r].kind = "patch" /\ req[r].pc = "read" /\ req'[r].answer = 200 =>
                 \A f \in DOMAIN req[r].change : Kept(r, f)
  BY <1>1, <1>2
<1> QED
  BY <1>2, Invariant, PTL DEF Spec, SuccessMeansStored

\* A deleted customer comes back by the seed and by nothing else.
THEOREM OnlyTheSeedRestores == Spec => DeletedStaysDeleted
<1>1. ASSUME IInv, [Next]_vars, NEW c \in Customers, rows[c] = None, rows'[c] # None
      PROVE  seed.pc = "run" /\ rows'[c] = SeedRow
  <2>1. ASSUME NEW r \in Requests, Delete(r) PROVE FALSE
    BY <1>1, <2>1 DEF Delete, IInv, Base, DataOK, RequestOK, Sound
  <2>2. ASSUME NEW r \in Requests, Patch(r) PROVE FALSE
    BY <1>1, <2>2, PatchAddsNone DEF IInv
  <2>3. CASE SeedCommit
    BY <1>1, <2>3 DEF SeedCommit
  <2> QED
    BY <1>1, <2>1, <2>2, <2>3 DEF Next, StartSeed, SeedPolicy, SeedCustomer, Stop, Call, Select,
                             Suspend, Supersede, vars
<1>2. ASSUME IInv, [Next]_vars
      PROVE  \A c \in Customers :
               rows[c] = None /\ rows'[c] # None => seed.pc = "run" /\ rows'[c] = SeedRow
  BY <1>1, <1>2
<1> QED
  BY <1>2, Invariant, PTL DEF Spec, DeletedStaysDeleted
=============================================================================
