----------------------------- MODULE AuditProofs ------------------------------
(***************************************************************************)
(* Theorems about AuditChain and AuditQueries, for every number of         *)
(* writers, events and page sizes: what verify_integrity vouches for, what *)
(* it finds, and what an auditor reads page by page.                       *)
(***************************************************************************)
EXTENDS AuditQueries, FiniteSetTheorems, TLAPS

(***************************************************************************)
(* The table, whatever the clock does and however many threads record.     *)
(***************************************************************************)
\* A row has the columns that the model gives it.
Row(e) == [id |-> e.id, time |-> e.time, body |-> e.body, prev |-> e.prev, hash |-> e.hash]

\* The rows are finitely many and told apart by event_id.
Table == /\ IsFiniteSet(rows)
         /\ \A e \in rows : e = Row(e)
         /\ \A e, f \in rows : e.id = f.id => e = f

\* A row that nobody edited has the hash of its columns; the row a single edit
\* left is in the table, and says something else than the row it was.
Hashes == /\ tampered = 0 => \A e \in rows : Hashed(e)
          /\ tampered = 1 /\ change.kind = "modified" =>
               /\ change.became \in rows
               /\ Row(change.row) # Row(change.became)
               /\ Hashed(change.row)

\* A row that was changed under a later one is gone, and the later one still
\* links to its hash.
LinkLost == tampered = 1 /\ change.valid /\ change.followed =>
  /\ change.row \notin rows /\ change.row = Row(change.row)
  /\ Hashed(change.row)
  /\ \E g \in rows : g.prev = change.row.hash

Base == TypeOK /\ Table
-----------------------------------------------------------------------------

\* The log begins empty.
LEMMA InitBase == Init => Base /\ Hashes /\ LinkLost
  BY ChainAssumption, FS_EmptySet DEF Init, Base, TypeOK, Table, Hashes, LinkLost, Ids, Unchanged

\* What an edit of a row does, whatever it makes of it.
Edit(e, f) == /\ f = Row(f) /\ f # e
              /\ f.id \in Ids /\ f.time \in 0..MaxTime /\ f.body \in Bodies
              /\ \A g \in rows \ {e} : g.id # f.id
              /\ rows' = (rows \ {e}) \cup {f}
              /\ used' = used \cup {f.id}
              /\ Changes("modified", e, f)
              /\ UNCHANGED <<now, stage, previous>>

LEMMA Edited == ASSUME NEW e, Modify(e) PROVE \E f : Edit(e, f)
<1>1. PICK id \in Ids \ {g.id : g \in rows \ {e}}, time \in 0..MaxTime,
           body \in Bodies, prev \in {NoHash} \cup Stored :
        \E hash \in Stored \cup {EventHash(id, time, body, prev)} :
          LET f == [id |-> id, time |-> time, body |-> body, prev |-> prev, hash |-> hash]
          IN /\ f # e
             /\ rows' = (rows \ {e}) \cup {f}
             /\ used' = used \cup {id}
             /\ Changes("modified", e, f)
             /\ UNCHANGED <<now, stage, previous>>
  BY DEF Modify
<1>2. PICK hash :
        LET f == [id |-> id, time |-> time, body |-> body, prev |-> prev, hash |-> hash]
        IN /\ f # e
           /\ rows' = (rows \ {e}) \cup {f}
           /\ used' = used \cup {id}
           /\ Changes("modified", e, f)
           /\ UNCHANGED <<now, stage, previous>>
  BY <1>1
<1> DEFINE f == [id |-> id, time |-> time, body |-> body, prev |-> prev, hash |-> hash]
<1>3. f.id = id /\ f.time = time /\ f.body = body /\ f = Row(f)
  BY DEF Row
<1>4. /\ f # e
      /\ rows' = (rows \ {e}) \cup {f}
      /\ Changes("modified", e, f)
  BY <1>2
<1> HIDE DEF f
<1>5. Edit(e, f)
  BY <1>2, <1>3, <1>4 DEF Edit
<1> QED
  BY <1>5

\* A step keeps the types of the variables.
LEMMA TypePreserved == Base /\ [Next]_vars => TypeOK'
<1> SUFFICES ASSUME Base, [Next]_vars PROVE TypeOK'
  OBVIOUS
<1> USE DEF Base, TypeOK
<1>1. ASSUME NEW w \in Writers, ReadLast(w) PROVE TypeOK'
  BY <1>1 DEF ReadLast
<1>2. ASSUME NEW w \in Writers, Insert(w) PROVE TypeOK'
  BY <1>2 DEF Insert
<1>3. ASSUME NEW w \in Writers, Abort(w) PROVE TypeOK'
  BY <1>3 DEF Abort
<1>4. ASSUME NEW t \in 0..MaxTime, ClockMoves(t) PROVE TypeOK'
  BY <1>4 DEF ClockMoves
<1>5. ASSUME NEW e \in rows, Delete(e) PROVE TypeOK'
  BY <1>5, ChainAssumption DEF Delete, Changes
<1>6. ASSUME NEW e \in rows, Modify(e) PROVE TypeOK'
  <2>1. PICK f : Edit(e, f)
    BY <1>6, Edited
  <2> QED
    BY <2>1, ChainAssumption DEF Edit, Changes
<1>7. CASE UNCHANGED vars
  BY <1>7 DEF vars
<1> QED
  BY <1>1, <1>2, <1>3, <1>4, <1>5, <1>6, <1>7 DEF Next


\* What Insert adds to the table.
NewRow(w, id, b) == [id |-> id, time |-> now, body |-> b, prev |-> previous[w],
                     hash |-> EventHash(id, now, b, previous[w])]

\* Insertion takes a fresh id, an edit an id that no other row has.
LEMMA TablePreserved == Base /\ [Next]_vars => Table'
<1> SUFFICES ASSUME Base, [Next]_vars PROVE Table'
  OBVIOUS
<1> USE DEF Base, TypeOK, Table, Row
<1>1. ASSUME NEW w \in Writers, ReadLast(w) PROVE Table'
  BY <1>1 DEF ReadLast
<1>2. ASSUME NEW w \in Writers, Insert(w) PROVE Table'
  <2>1. PICK id \in Ids \ used, b \in Bodies :
          /\ rows' = rows \cup {NewRow(w, id, b)}
          /\ used' = used \cup {id}
    BY <1>2 DEF Insert, NewRow
  <2>2. IsFiniteSet(rows')
    BY <2>1, FS_AddElement
  <2> QED
    BY <2>1, <2>2 DEF NewRow
<1>3. ASSUME NEW w \in Writers, Abort(w) PROVE Table'
  BY <1>3 DEF Abort
<1>4. ASSUME NEW t \in 0..MaxTime, ClockMoves(t) PROVE Table'
  BY <1>4 DEF ClockMoves
<1>5. ASSUME NEW e \in rows, Delete(e) PROVE Table'
  BY <1>5, FS_RemoveElement DEF Delete
<1>6. ASSUME NEW e \in rows, Modify(e) PROVE Table'
  <2>1. PICK f : Edit(e, f)
    BY <1>6, Edited
  <2>2. IsFiniteSet(rows')
    BY <2>1, FS_RemoveElement, FS_AddElement DEF Edit
  <2> QED
    BY <2>1, <2>2 DEF Edit
<1>7. CASE UNCHANGED vars
  BY <1>7 DEF vars
<1> QED
  BY <1>1, <1>2, <1>3, <1>4, <1>5, <1>6, <1>7 DEF Next

\* Two events have the same hash only if they say the same.
LEMMA HashInjective ==
  ASSUME NEW i, NEW t, NEW b, NEW p, NEW j, NEW u, NEW c, NEW q,
         EventHash(i, t, b, p) = EventHash(j, u, c, q)
  PROVE  i = j /\ t = u /\ b = c /\ p = q
  BY DEF EventHash

\* So rows that have the hash of their columns have different hashes.
LEMMA HashesDiffer ==
  ASSUME NEW e, NEW f, Hashed(e), Hashed(f), e.hash = f.hash
  PROVE  Row(e) = Row(f)
<1>1. EventHash(e.id, e.time, e.body, e.prev) = EventHash(f.id, f.time, f.body, f.prev)
  BY DEF Hashed
<1>2. e.id = f.id /\ e.time = f.time /\ e.body = f.body /\ e.prev = f.prev
  BY <1>1, HashInjective
<1> QED
  BY <1>2 DEF Row

\* An edit leaves the hash of the row behind; nothing but an edit does.
LEMMA HashesPreserved == Base /\ Hashes /\ [Next]_vars => Hashes'
<1> SUFFICES ASSUME Base, Hashes, [Next]_vars PROVE Hashes'
  OBVIOUS
<1> USE DEF Base, Hashes
<1>1. ASSUME NEW w \in Writers, ReadLast(w) PROVE Hashes'
  BY <1>1 DEF ReadLast, Hashed, Row
<1>2. ASSUME NEW w \in Writers, Insert(w) PROVE Hashes'
  <2>1. PICK id \in Ids \ used, b \in Bodies : rows' = rows \cup {NewRow(w, id, b)}
    BY <1>2 DEF Insert, NewRow
  <2>2. Hashed(NewRow(w, id, b))
    BY DEF Hashed, NewRow
  <2>3. UNCHANGED <<tampered, change>>
    BY <1>2 DEF Insert
  <2> QED
    BY <2>1, <2>2, <2>3
<1>3. ASSUME NEW w \in Writers, Abort(w) PROVE Hashes'
  BY <1>3 DEF Abort, Hashed, Row
<1>4. ASSUME NEW t \in 0..MaxTime, ClockMoves(t) PROVE Hashes'
  BY <1>4 DEF ClockMoves, Hashed, Row
<1>5. ASSUME NEW e \in rows, Delete(e) PROVE Hashes'
  BY <1>5, ChainAssumption DEF Delete, Changes, TypeOK
<1>6. ASSUME NEW e \in rows, Modify(e) PROVE Hashes'
  <2>1. PICK f : Edit(e, f)
    BY <1>6, Edited
  <2>2. tampered' = 1 => tampered = 0 /\ change'.row = e /\ change'.became = f /\ f \in rows'
    BY <2>1, ChainAssumption DEF Edit, Changes, TypeOK
  <2> QED
    BY <2>1, <2>2, ChainAssumption DEF Edit, Changes, TypeOK, Table
<1>7. CASE UNCHANGED vars
  BY <1>7 DEF vars, Hashed, Row
<1> QED
  BY <1>1, <1>2, <1>3, <1>4, <1>5, <1>6, <1>7 DEF Next

\* (timestamp, event_id) is a strict order of the rows.
LEMMA Order ==
  ASSUME TypeOK, NEW e \in rows, NEW f \in rows, NEW g \in rows
  PROVE  /\ ~(Before(e, f) /\ Before(f, e))
         /\ Before(e, f) /\ Before(f, g) => Before(e, g)
         /\ e.id # f.id => Before(e, f) \/ Before(f, e)
<1>1. \A r \in rows : r.time \in Nat /\ r.id \in Nat
  <2>1. \A r \in rows : r.time \in 0..MaxTime /\ r.id \in 1..MaxEvents
    BY DEF TypeOK, Ids
  <2> QED
    BY <2>1, ChainAssumption
<1> QED
  BY <1>1 DEF Before

\* Ranks number the rows of a query from 0, without a gap, backwards.
LEMMA Ranks ==
  ASSUME Base, NEW filter
  PROVE  LET S == Matching(filter)
             n == Cardinality(S)
         IN /\ n \in Nat
            /\ \A e \in S : Rank(e, filter) \in 0..n-1
            /\ \A k \in 0..n-1 : \E e \in S : Rank(e, filter) = k
            /\ \A e, f \in S : Before(e, f) => Rank(f, filter) < Rank(e, filter)
<1> DEFINE S == Matching(filter)
           n == Cardinality(S)
           Newer(e) == {f \in S : Before(e, f)}
<1>1. S \subseteq rows /\ IsFiniteSet(S) /\ n \in Nat
  BY FS_Subset, FS_CardinalityType DEF Matching, Base, Table
<1>2. \A e, f \in S : e.id = f.id => e = f
  BY <1>1 DEF Base, Table
<1>3. \A e \in S : Rank(e, filter) = Cardinality(Newer(e))
  BY DEF Rank
<1>4. ASSUME NEW e \in S PROVE /\ ~Before(e, e)
                              /\ \A f, g \in S : /\ Before(e, f) /\ Before(f, g) => Before(e, g)
                                                 /\ e # f => Before(e, f) \/ Before(f, e)
  BY <1>1, <1>2, Order DEF Base
<1> HIDE DEF S
<1>5. ASSUME NEW e \in S PROVE Cardinality(Newer(e)) \in 0..n-1
  <2>1. IsFiniteSet(S \ {e}) /\ Cardinality(S \ {e}) = n - 1
    BY <1>1, FS_RemoveElement
  <2>2. Newer(e) \in SUBSET (S \ {e})
    BY <1>4
  <2>3. IsFiniteSet(Newer(e)) /\ Cardinality(Newer(e)) <= n - 1
    BY <2>1, <2>2, FS_Subset
  <2>4. Cardinality(Newer(e)) \in Nat
    BY <2>3, FS_CardinalityType
  <2> QED
    BY <1>1, <2>3, <2>4
<1>6. ASSUME NEW e \in S, NEW f \in S, Before(e, f)
      PROVE  Cardinality(Newer(f)) < Cardinality(Newer(e))
  <2>1. IsFiniteSet(Newer(e)) /\ Cardinality(Newer(e)) \in Nat
    BY <1>1, FS_Subset, FS_CardinalityType
  <2>2. f \in Newer(e) /\ Newer(f) \in SUBSET (Newer(e) \ {f})
    BY <1>4, <1>6
  <2>3. IsFiniteSet(Newer(e) \ {f}) /\ Cardinality(Newer(e) \ {f}) = Cardinality(Newer(e)) - 1
    BY <2>1, <2>2, FS_RemoveElement
  <2>4. Cardinality(Newer(f)) <= Cardinality(Newer(e)) - 1 /\ Cardinality(Newer(f)) \in Nat
    BY <2>2, <2>3, FS_Subset, FS_CardinalityType
  <2> QED
    BY <2>1, <2>4
<1> DEFINE rank == [e \in S |-> Cardinality(Newer(e))]
<1> HIDE DEF n
<1>7. rank \in Injection(S, 0..n-1)
  <2>1. rank \in [S -> 0..n-1]
    BY <1>5
  <2>2. ASSUME NEW e \in S, NEW f \in S, Cardinality(Newer(e)) = Cardinality(Newer(f)) PROVE e = f
    <3>1. Cardinality(Newer(e)) \in Int /\ Cardinality(Newer(f)) \in Int
      BY <1>5
    <3> QED
      BY <1>4, <1>6, <2>2, <3>1
  <2> QED
    BY <2>1, <2>2 DEF Injection, IsInjective
<1>8. IsFiniteSet(0..n-1) /\ Cardinality(0..n-1) = n
  BY <1>1, FS_Interval
<1>9. rank \in Surjection(S, 0..n-1)
  BY <1>7, <1>8, FS_Injection DEF n
<1>10. \A k \in 0..n-1 : \E e \in S : Cardinality(Newer(e)) = k
  BY <1>9 DEF Surjection
<1> QED
  BY <1>1, <1>3, <1>5, <1>6, <1>10 DEF n, S

\* Every row but the newest has a next one.
LEMMA Successor ==
  ASSUME Base, NEW e \in rows, NEW f \in rows, Before(e, f)
  PROVE  \E g \in rows : NextRow(e, g)
<1> DEFINE R(g) == Rank(g, None)
           n == Cardinality(rows)
<1>1. Matching(None) = rows
  BY DEF Matching
<1>2. /\ n \in Nat
      /\ \A g \in rows : R(g) \in 0..n-1
      /\ \A k \in 0..n-1 : \E g \in rows : R(g) = k
      /\ \A g, h \in rows : Before(g, h) => R(h) < R(g)
  BY <1>1, Ranks
<1>3. PICK g \in rows : R(g) = R(e) - 1
  <2>1. R(e) - 1 \in 0..n-1
    BY <1>2
  <2> QED
    BY <1>2, <2>1
<1> HIDE DEF R, n
<1>4. e.id # g.id
  <2>1. R(e) # R(g)
    BY <1>2, <1>3
  <2> QED
    BY <2>1 DEF Base, Table
<1>5. Before(e, g)
  BY <1>2, <1>3, <1>4, Order DEF Base
<1>6. ASSUME NEW h \in rows, Before(e, h), h # g PROVE Before(g, h)
  <2>1. ~Before(h, g)
    BY <1>2, <1>3, <1>6
  <2>2. h.id # g.id
    BY <1>6 DEF Base, Table
  <2> QED
    BY <2>1, <2>2, Order DEF Base
<1> QED
  BY <1>5, <1>6 DEF NextRow

\* In a valid log the next row links to the row before it.
LEMMA LinksBack ==
  ASSUME Base, VerifyIntegrity, NEW e \in rows, NEW g \in rows, NextRow(e, g)
  PROVE  g # e /\ g.prev = e.hash
<1>1. Before(e, g) /\ g # e
  BY Order DEF NextRow, Base
<1>2. PICK p \in rows : ImmediatelyBefore(p, g) /\ g.prev = p.hash
  BY <1>1 DEF VerifyIntegrity, RowValid, Linked
<1>3. p # g
  BY <1>2, Order DEF ImmediatelyBefore, Base
<1>4. ~Before(p, e) /\ ~Before(e, p)
  BY <1>1, <1>2, <1>3, Order DEF ImmediatelyBefore, NextRow, Base
<1>5. p = e
  BY <1>4, Order DEF Base, Table
<1> QED
  BY <1>1, <1>2, <1>5

\* So a row that is changed under a later one leaves a link behind.
LEMMA LinkIsLost ==
  ASSUME Base, NEW e \in rows, NEW f, NEW kind, Changes(kind, e, f),
         e \notin rows', \A g \in rows : g # e => g \in rows'
  PROVE  LinkLost'
<1>1. tampered' = 1 => change' = [kind |-> kind, row |-> e, became |-> f,
                                  followed |-> \E g \in rows : Before(e, g),
                                  valid |-> VerifyIntegrity]
  BY DEF Changes
<1>2. CASE VerifyIntegrity /\ \E g \in rows : Before(e, g)
  <2>1. PICK g \in rows : NextRow(e, g)
    BY <1>2, Successor
  <2>2. g # e /\ g.prev = e.hash
    BY <1>2, <2>1, LinksBack
  <2>3. e = Row(e) /\ Hashed(e) /\ g \in rows'
    BY <1>2, <2>2 DEF Base, Table, VerifyIntegrity, RowValid
  <2>4. tampered' = 1 => change'.row = e
    BY <1>1
  <2> HIDE <1>1
  <2> QED
    BY <2>2, <2>3, <2>4 DEF LinkLost, Hashed, Row
<1>3. CASE ~(VerifyIntegrity /\ \E g \in rows : Before(e, g))
  <2>1. tampered' = 1 => ~(change'.valid /\ change'.followed)
    BY <1>1, <1>3
  <2> QED
    BY <2>1 DEF LinkLost
<1> QED
  BY <1>2, <1>3

\* And a log in which a link is lost is not valid.
LEMMA LostIsInvalid == Base /\ LinkLost => ChangeIsFound
<1> SUFFICES ASSUME Base, LinkLost, tampered = 1, change.valid, change.followed, VerifyIntegrity
             PROVE  FALSE
  BY DEF ChangeIsFound
<1>1. /\ change.row \notin rows /\ change.row = Row(change.row) /\ Hashed(change.row)
      /\ \E g \in rows : g.prev = change.row.hash
  BY DEF LinkLost
<1>2. PICK g \in rows : g.prev = change.row.hash
  BY <1>1
<1>3. g.prev # NoHash
  BY <1>1, <1>2 DEF Hashed, EventHash, NoHash
<1>4. PICK p \in rows : g.prev = p.hash
  BY <1>3 DEF VerifyIntegrity, RowValid, Linked
<1>5. Row(p) = Row(change.row)
  BY <1>1, <1>2, <1>4, HashesDiffer DEF VerifyIntegrity, RowValid
<1>6. p = Row(p)
  BY DEF Base, Table
<1> QED
  BY <1>1, <1>5, <1>6

\* Nothing brings a lost row back, and nothing but a change loses one.
LEMMA LinkLostPreserved == Base /\ LinkLost /\ [Next]_vars => LinkLost'
<1> SUFFICES ASSUME Base, LinkLost, [Next]_vars PROVE LinkLost'
  OBVIOUS
<1> USE DEF Base
<1>1. ASSUME NEW w \in Writers, ReadLast(w) PROVE LinkLost'
  BY <1>1 DEF ReadLast, Hashed, Row, LinkLost
<1>2. ASSUME NEW w \in Writers, Insert(w) PROVE LinkLost'
  <2>1. PICK id \in Ids \ used, b \in Bodies : rows' = rows \cup {NewRow(w, id, b)}
    BY <1>2 DEF Insert, NewRow
  <2>2. UNCHANGED <<tampered, change>>
    BY <1>2 DEF Insert
  <2>3. tampered = 1 => change.row.id \in used
    BY DEF TypeOK
  <2>4. NewRow(w, id, b).id = id
    BY DEF NewRow
  <2> QED
    BY <2>1, <2>2, <2>3, <2>4 DEF LinkLost
<1>3. ASSUME NEW w \in Writers, Abort(w) PROVE LinkLost'
  BY <1>3 DEF Abort, Hashed, Row, LinkLost
<1>4. ASSUME NEW t \in 0..MaxTime, ClockMoves(t) PROVE LinkLost'
  BY <1>4 DEF ClockMoves, Hashed, Row, LinkLost
<1>5. ASSUME NEW e \in rows, Delete(e) PROVE LinkLost'
  <2>1. rows' \subseteq rows \ {e} /\ \A g \in rows : g # e => g \in rows'
    BY <1>5 DEF Delete
  <2>2. Changes("deleted", e, e)
    BY <1>5 DEF Delete
  <2> QED
    BY <2>1, <2>2, LinkIsLost
<1>6. ASSUME NEW e \in rows, Modify(e) PROVE LinkLost'
  <2>1. PICK f : Edit(e, f)
    BY <1>6, Edited
  <2>2. e \notin rows' /\ \A g \in rows : g # e => g \in rows'
    BY <2>1 DEF Edit
  <2> QED
    BY <2>1, <2>2, LinkIsLost DEF Edit
<1>7. CASE UNCHANGED vars
  BY <1>7 DEF vars, Hashed, Row, LinkLost
<1> QED
  BY <1>1, <1>2, <1>3, <1>4, <1>5, <1>6, <1>7 DEF Next

\* The columns have their types in every reachable state.
THEOREM AuditTyped == Spec => []TypeOK
<1>1. Base /\ [Next]_vars => Base'
  BY TypePreserved, TablePreserved DEF Base
<1> QED
  BY <1>1, InitBase, PTL DEF Spec, Base

TableInv == Base /\ Hashes /\ LinkLost

LEMMA TableInvariant == Spec => []TableInv
<1>1. TableInv /\ [Next]_vars => TableInv'
  BY TypePreserved, TablePreserved, HashesPreserved, LinkLostPreserved DEF TableInv, Base
<1> QED
  BY <1>1, InitBase, PTL DEF Spec, TableInv

\* A row edited in any columns but its hash is never vouched for by
\* verify_integrity, whatever the clock does and however many threads record.
THEOREM EditIsFound == Spec => []EditIsNeverValid
<1>1. TableInv => EditIsNeverValid
  <2> SUFFICES ASSUME TableInv, tampered = 1, change.kind = "modified",
                      change.became.hash = change.row.hash, VerifyIntegrity
               PROVE  FALSE
    BY DEF EditIsNeverValid
  <2>1. /\ change.became \in rows /\ Hashed(change.row)
        /\ Row(change.row) # Row(change.became)
    BY DEF TableInv, Hashes
  <2>2. Hashed(change.became)
    BY <2>1 DEF VerifyIntegrity, RowValid
  <2> QED
    BY <2>1, <2>2, HashesDiffer
<1> QED
  BY <1>1, TableInvariant, PTL

\* One change of any columns of a row, its place in the order and its hash
\* included, or its deletion, invalidates for good a valid log in which another
\* row followed, whatever the clock does and however many threads record.
THEOREM ChangeFound == Spec => []ChangeIsFound
<1>1. TableInv => ChangeIsFound
  BY LostIsInvalid DEF TableInv
<1> QED
  BY <1>1, TableInvariant, PTL


-----------------------------------------------------------------------------
(***************************************************************************)
(* The chain, where the order of the rows is the order they were recorded  *)
(* in: one thread records, no two events get the same timestamp and the    *)
(* clock is not set back.  The code enforces none of the three; the runs   *)
(* audit_clock and its like show what happens without them.                *)
(***************************************************************************)
Orderly == ~Ties /\ ~StepsBack /\ \A v, w \in Writers : v = w

Chronological == /\ \A e \in rows : e.time <= now
                 /\ \A e, f \in rows : e.time = f.time => e = f

\* The rows are where the writer put them: nobody moved one.
Ordered == tampered = 0 \/ (tampered = 1 /\ InPlace)

\* What the writer has read is still the end of the log.
AtTheEnd == \A w \in Writers : stage[w] = "read" =>
  \/ rows = {} /\ previous[w] = NoHash
  \/ \E e \in rows : IsLast(e) /\ previous[w] = e.hash

Clean == tampered = 0 => VerifyIntegrity /\ AtTheEnd

ChainInv == Base /\ (Ordered => Chronological) /\ Clean /\ TamperingIsFound

LEMMA InitChain == Init => ChainInv
  BY InitBase DEF Init, ChainInv, Chronological, Clean, VerifyIntegrity, AtTheEnd,
                  TamperingIsFound

\* What the walk finds at a row depends on the rows before it alone.
LEMMA LinkedByPast ==
  ASSUME NEW e, \A p : p \in rows /\ Before(p, e) <=> p \in rows' /\ Before(p, e)
  PROVE  /\ Linked(e) <=> Linked(e)'
         /\ RowValid(e) <=> RowValid(e)'
<1>1. Linked(e) <=> Linked(e)'
  BY DEF Linked, ImmediatelyBefore
<1> QED
  BY <1>1 DEF RowValid

\* Time passes, and at most the newest timestamp is now.
LEMMA ChronologicalPreserved ==
  ASSUME Orderly, Base, Ordered => Chronological, [Next]_vars, Ordered'
  PROVE  Chronological'
<1> USE DEF Base, TypeOK, Table, Row, Chronological
<1>0. ASSUME UNCHANGED <<tampered, change>> PROVE Ordered
  BY <1>0 DEF Ordered, InPlace
<1>1. ASSUME NEW w \in Writers, ReadLast(w) PROVE Chronological'
  BY <1>0, <1>1 DEF ReadLast
<1>2. ASSUME NEW w \in Writers, Insert(w) PROVE Chronological'
  <2>1. PICK id \in Ids \ used, b \in Bodies : rows' = rows \cup {NewRow(w, id, b)}
    BY <1>2 DEF Insert, NewRow
  <2>2. UNCHANGED now /\ \A e \in rows : e.time # now
    BY <1>2 DEF Insert, Orderly
  <2>3. Ordered
    BY <1>0, <1>2 DEF Insert
  <2> QED
    BY <2>1, <2>2, <2>3, ChainAssumption DEF NewRow
<1>3. ASSUME NEW w \in Writers, Abort(w) PROVE Chronological'
  BY <1>0, <1>3 DEF Abort
<1>4. ASSUME NEW t \in 0..MaxTime, ClockMoves(t) PROVE Chronological'
  BY <1>0, <1>4, ChainAssumption DEF ClockMoves, Orderly
<1>5. ASSUME NEW e \in rows, Delete(e) PROVE Chronological'
  <2>1. tampered = 0
    BY <1>5, ChainAssumption DEF Delete, Changes, Ordered
  <2> QED
    BY <1>5, <2>1 DEF Delete, Ordered
<1>6. ASSUME NEW e \in rows, Modify(e) PROVE Chronological'
  <2>1. PICK f : Edit(e, f)
    BY <1>6, Edited
  <2>2. tampered = 0 /\ change'.row = e /\ change'.became = f
    BY <2>1, ChainAssumption DEF Edit, Changes, Ordered
  <2>3. f.time = e.time
    BY <2>1, <2>2, ChainAssumption DEF Edit, Changes, Ordered, InPlace
  <2> QED
    BY <2>1, <2>2, <2>3 DEF Edit, Ordered
<1>7. CASE UNCHANGED vars
  BY <1>0, <1>7 DEF vars
<1> QED
  BY <1>1, <1>2, <1>3, <1>4, <1>5, <1>6, <1>7 DEF Next

\* A new event comes after every other and changes what the walk finds at none.
LEMMA Insertion ==
  ASSUME Orderly, Base, Chronological, NEW w \in Writers, Insert(w)
  PROVE  \E n : /\ rows' = rows \cup {n} /\ n \notin rows
                /\ n.prev = previous[w] /\ Hashed(n)
                /\ \A e \in rows : Before(e, n)
                /\ \A e \in rows' : ~Before(n, e)
                /\ \A e \in rows : RowValid(e) <=> RowValid(e)'
<1>1. PICK id \in Ids \ used, b \in Bodies : rows' = rows \cup {NewRow(w, id, b)}
  BY DEF Insert, NewRow
<1> DEFINE n == NewRow(w, id, b)
<1>2. n.id = id /\ n.time = now /\ n.prev = previous[w] /\ Hashed(n)
  BY DEF NewRow, Hashed
<1>3. \A e \in rows : e.time < now /\ e.time \in Nat
  BY ChainAssumption DEF Insert, Orderly, Chronological, Base, TypeOK
<1>4. now \in Nat /\ id \in Nat
  BY ChainAssumption DEF Base, TypeOK, Ids
<1> HIDE DEF n
<1>5. /\ \A e \in rows : Before(e, n) /\ ~Before(n, e)
      /\ ~Before(n, n) /\ n \notin rows
  BY <1>2, <1>3, <1>4 DEF Before
<1>6. rows' = rows \cup {n}
  BY <1>1 DEF n
<1>7. \A e \in rows : RowValid(e) <=> RowValid(e)'
  <2> SUFFICES ASSUME NEW e \in rows PROVE RowValid(e) <=> RowValid(e)'
    OBVIOUS
  <2>1. \A p : p \in rows /\ Before(p, e) <=> p \in rows' /\ Before(p, e)
    BY <1>5, <1>6
  <2> QED
    BY <2>1, LinkedByPast
<1> QED
  BY <1>2, <1>5, <1>6, <1>7


\* What is said of the rows alone stays true while they do.
LEMMA SameRows ==
  ASSUME UNCHANGED rows
  PROVE  /\ VerifyIntegrity <=> VerifyIntegrity'
         /\ \A e : IsLast(e) <=> IsLast(e)'
         /\ UNCHANGED <<tampered, change>> => (TamperingIsFound <=> TamperingIsFound')
<1>1. \A e : RowValid(e) <=> RowValid(e)'
  BY LinkedByPast
<1>2. \A e : FirstInvalid(e) <=> FirstInvalid(e)'
  BY <1>1 DEF FirstInvalid
<1>3. ASSUME UNCHANGED <<tampered, change>> PROVE TamperingIsFound <=> TamperingIsFound'
  BY <1>2, <1>3 DEF TamperingIsFound, InPlace, Fitting, Hashed, NextRow, Before
<1> QED
  BY <1>1, <1>3 DEF VerifyIntegrity, IsLast

\* A new event continues a chain that nobody touched.
LEMMA InsertClean ==
  ASSUME Orderly, Base, Chronological, VerifyIntegrity, AtTheEnd,
         NEW w \in Writers, Insert(w)
  PROVE  VerifyIntegrity' /\ AtTheEnd'
<1>1. PICK n : /\ rows' = rows \cup {n} /\ n \notin rows
               /\ n.prev = previous[w] /\ Hashed(n)
               /\ \A e \in rows : Before(e, n)
               /\ \A e \in rows' : ~Before(n, e)
               /\ \A e \in rows : RowValid(e) <=> RowValid(e)'
  BY Insertion
<1>2. Linked(n)'
  <2>1. CASE rows = {} /\ previous[w] = NoHash
    BY <1>1, <2>1 DEF Linked
  <2>2. ASSUME NEW e \in rows, IsLast(e), previous[w] = e.hash PROVE Linked(n)'
    <3>1. ASSUME NEW f \in rows', Before(e, f), Before(f, n) PROVE FALSE
      BY <1>1, <2>2, <3>1, Order DEF IsLast, Base
    <3> QED
      BY <1>1, <2>2, <3>1 DEF Linked, ImmediatelyBefore
  <2> QED
    BY <2>1, <2>2 DEF AtTheEnd, Insert
<1>3. VerifyIntegrity'
  BY <1>1, <1>2 DEF VerifyIntegrity, RowValid, Hashed
<1>4. AtTheEnd'
  BY DEF AtTheEnd, Insert, Orderly, Base, TypeOK
<1> QED
  BY <1>3, <1>4

\* A log nobody touched stays valid.
LEMMA CleanPreserved ==
  ASSUME Orderly PROVE ChainInv /\ [Next]_vars => Clean'
<1> SUFFICES ASSUME ChainInv, [Next]_vars PROVE Clean'
  OBVIOUS
<1> USE DEF ChainInv, Base, Clean
<1>1. ASSUME NEW w \in Writers, ReadLast(w) PROVE Clean'
  BY <1>1, SameRows DEF ReadLast, AtTheEnd, TypeOK, Orderly
<1>2. ASSUME NEW w \in Writers, Insert(w) PROVE Clean'
  BY <1>2, InsertClean DEF Insert, Ordered
<1>3. ASSUME NEW w \in Writers, Abort(w) PROVE Clean'
  BY <1>3, SameRows DEF Abort, AtTheEnd, TypeOK, Orderly
<1>4. ASSUME NEW t \in 0..MaxTime, ClockMoves(t) PROVE Clean'
  BY <1>4, SameRows DEF ClockMoves, AtTheEnd
<1>5. ASSUME NEW e \in rows, Delete(e) \/ Modify(e) PROVE Clean'
  BY <1>5, ChainAssumption DEF Delete, Modify, Changes, TypeOK
<1>6. CASE UNCHANGED vars
  BY <1>6, SameRows DEF vars, AtTheEnd
<1> QED
  BY <1>1, <1>2, <1>3, <1>4, <1>5, <1>6 DEF Next

\* When a row is replaced where it is, or removed, the rows before it are the same.
LEMMA SamePast ==
  ASSUME Base, NEW e \in rows, NEW F, rows' = (rows \ {e}) \cup F,
         \A f \in F : f.id = e.id /\ f.time = e.time
  PROVE  /\ \A f \in F : \A p : p \in rows' /\ Before(p, f) <=> p \in rows /\ Before(p, e)
         /\ \A h \in rows' : Before(h, e) => h \in rows /\ (RowValid(h) <=> RowValid(h)')
<1>1. e.time \in Nat /\ e.id \in Nat
  <2>1. e.time \in 0..MaxTime /\ e.id \in 1..MaxEvents
    BY DEF Base, TypeOK, Ids
  <2> QED
    BY <2>1, ChainAssumption
<1>2. \A f \in F \cup {e} : ~Before(f, e) /\ ~Before(e, f) /\ \A g \in F : ~Before(f, g)
  BY <1>1 DEF Before
<1>3. \A f \in F : \A p : Before(p, f) <=> Before(p, e)
  BY DEF Before
<1>4. ASSUME NEW h \in rows', Before(h, e) PROVE h \in rows /\ (RowValid(h) <=> RowValid(h)')
  <2>1. h \in rows \ {e}
    BY <1>2, <1>4
  <2>2. ASSUME NEW p PROVE p \in rows /\ Before(p, h) <=> p \in rows' /\ Before(p, h)
    <3>1. p \in F => ~Before(p, h)
      <4>1. \A f \in F : Before(f, h) <=> Before(e, h)
        BY DEF Before
      <4> QED
        BY <1>4, <2>1, <4>1, Order DEF Base
    <3>2. ~Before(e, h)
      BY <1>4, <2>1, Order DEF Base
    <3> QED
      BY <3>1, <3>2
  <2> QED
    BY <2>1, <2>2, LinkedByPast
<1> QED
  BY <1>2, <1>3, <1>4

\* A row that is replaced where it is is still linked if it links to the same
\* row, and only then.
LEMMA SameLink ==
  ASSUME Base, VerifyIntegrity, NEW e \in rows, NEW f, rows' = (rows \ {e}) \cup {f},
         f.id = e.id, f.time = e.time
  PROVE  Linked(f)' <=> f.prev = e.prev
<1>1. \A p : p \in rows' /\ Before(p, f) <=> p \in rows /\ Before(p, e)
  BY SamePast
<1>2. \A p : p \in rows' /\ ImmediatelyBefore(p, f)' <=> p \in rows /\ ImmediatelyBefore(p, e)
  BY <1>1 DEF ImmediatelyBefore
<1>3. \A p, q \in rows : ImmediatelyBefore(p, e) /\ ImmediatelyBefore(q, e) => p = q
  <2> SUFFICES ASSUME NEW p \in rows, NEW q \in rows,
                      ImmediatelyBefore(p, e), ImmediatelyBefore(q, e)
               PROVE  p = q
    OBVIOUS
  <2>1. ~Before(p, q) /\ ~Before(q, p)
    BY DEF ImmediatelyBefore
  <2> QED
    BY <2>1, Order DEF Base, Table
<1>4. Linked(e)
  BY DEF VerifyIntegrity, RowValid
<1>5. Linked(f)' <=> \/ f.prev = NoHash /\ ~\E p \in rows : Before(p, e)
                     \/ \E p \in rows : ImmediatelyBefore(p, e) /\ f.prev = p.hash
  BY <1>1, <1>2 DEF Linked
<1>6. CASE e.prev = NoHash /\ ~\E p \in rows : Before(p, e)
  BY <1>5, <1>6 DEF ImmediatelyBefore
<1>7. ASSUME NEW p \in rows, ImmediatelyBefore(p, e), e.prev = p.hash
      PROVE  Linked(f)' <=> f.prev = e.prev
  BY <1>3, <1>5, <1>7 DEF ImmediatelyBefore
<1> QED
  BY <1>4, <1>6, <1>7 DEF Linked

\* The row after a removed one, or one that fits and says something else, links
\* to a hash that is no longer there.
LEMMA NextIsNamed ==
  ASSUME Base, Base', VerifyIntegrity, NEW e \in rows, NEW F, rows' = (rows \ {e}) \cup F,
         \A f \in F : /\ f.id = e.id /\ f.time = e.time /\ f # e
                      /\ RowValid(f)',
         NEW h \in rows, Before(e, h)
  PROVE  \E g \in rows' : FirstInvalid(g)' /\ NextRow(e, g)'
<1>1. PICK g \in rows : NextRow(e, g)
  BY Successor
<1>2. g # e /\ g.prev = e.hash
  BY <1>1, LinksBack
<1>3. \A f \in F : ~Before(e, f) /\ \A p : Before(p, f) <=> Before(p, e)
  <2>1. ~Before(e, e)
    BY Order DEF Base
  <2> QED
    BY <2>1 DEF Before
<1>4. ~RowValid(g)'
  <2>1. Hashed(e) /\ e = Row(e)
    BY DEF VerifyIntegrity, RowValid, Base, Table
  <2>2. g.prev # NoHash
    BY <1>2, <2>1 DEF Hashed, EventHash, NoHash
  <2>3. ASSUME NEW p \in rows', g.prev = p.hash PROVE FALSE
    <3>1. Hashed(p) /\ p # e /\ p = Row(p)
      BY DEF VerifyIntegrity, RowValid, Hashed, Base, Table
    <3> QED
      BY <1>2, <2>1, <2>3, <3>1, HashesDiffer
  <2> QED
    BY <2>2, <2>3 DEF RowValid, Linked
<1>5. ASSUME NEW p \in rows', Before(p, g) PROVE RowValid(p)'
  <2>1. CASE p \in F
    BY <2>1
  <2>2. CASE p \in rows \ {e}
    <3>1. ~Before(e, p)
      BY <1>1, <1>5, <2>2, Order DEF NextRow, Base
    <3>2. Before(p, e)
      BY <2>2, <3>1, Order DEF Base, Table
    <3> QED
      BY <2>2, <3>2, SamePast DEF VerifyIntegrity
  <2> QED
    BY <2>1, <2>2
<1>6. NextRow(e, g)'
  BY <1>1, <1>3 DEF NextRow
<1> QED
  BY <1>2, <1>4, <1>5, <1>6 DEF FirstInvalid

\* An edit that leaves the row where it is is found: at the row itself when its
\* hash or link does not fit, at the next row otherwise.
LEMMA EditFound ==
  ASSUME Base, Base', VerifyIntegrity, tampered = 0,
         NEW e \in rows, NEW f, Edit(e, f)
  PROVE  TamperingIsFound'
<1>1. /\ tampered' = 1 /\ change'.kind = "modified" /\ change'.row = e /\ change'.became = f
      /\ change'.followed = \E g \in rows : Before(e, g)
  BY DEF Edit, Changes
<1>2. rows' = (rows \ {e}) \cup {f} /\ f # e
  BY DEF Edit
<1>3. SUFFICES ASSUME f.id = e.id /\ f.time = e.time PROVE TamperingIsFound'
  BY <1>1 DEF TamperingIsFound, InPlace
<1>4. Fitting' <=> Hashed(f) /\ f.prev = e.prev
  BY <1>1 DEF Fitting, Hashed
<1>5. RowValid(f)' <=> Hashed(f) /\ f.prev = e.prev
  BY <1>2, <1>3, SameLink DEF RowValid, Hashed
<1>6. CASE Hashed(f) /\ f.prev = e.prev
  <2>1. CASE ~\E g \in rows : Before(e, g)
    BY <1>1, <1>4, <1>6, <2>1 DEF TamperingIsFound
  <2>2. ASSUME NEW h \in rows, Before(e, h) PROVE TamperingIsFound'
    <3>1. PICK g \in rows' : FirstInvalid(g)' /\ NextRow(e, g)'
      <4> DEFINE F == {f}
      <4>1. rows' = (rows \ {e}) \cup F
        BY <1>2
      <4>2. \A x \in F : x.id = e.id /\ x.time = e.time /\ x # e /\ RowValid(x)'
        BY <1>2, <1>3, <1>5, <1>6
      <4> HIDE DEF F
      <4> QED
        BY <2>2, <4>1, <4>2, NextIsNamed
    <3>2. NextRow(change.row, g)'
      BY <1>1, <3>1 DEF NextRow, Before
    <3> QED
      BY <1>1, <1>4, <1>6, <3>1, <3>2 DEF TamperingIsFound
  <2> QED
    BY <2>1, <2>2
<1>7. CASE ~(Hashed(f) /\ f.prev = e.prev)
  <2>1. \A h \in rows' : Before(h, f) => RowValid(h)'
    <3>1. \A h : Before(h, f) <=> Before(h, e)
      BY <1>3 DEF Before
    <3>2. \A h \in rows' : Before(h, e) => h \in rows /\ (RowValid(h) <=> RowValid(h)')
      <4> DEFINE F == {f}
      <4>1. rows' = (rows \ {e}) \cup F /\ \A x \in F : x.id = e.id /\ x.time = e.time
        BY <1>2, <1>3
      <4> HIDE DEF F
      <4> QED
        BY <4>1, SamePast
    <3> QED
      BY <3>1, <3>2 DEF VerifyIntegrity
  <2>2. FirstInvalid(f)'
    BY <1>5, <1>7, <2>1 DEF FirstInvalid
  <2> QED
    BY <1>1, <1>2, <1>4, <1>7, <2>2 DEF TamperingIsFound
<1> QED
  BY <1>6, <1>7

\* A deletion is found at the next row.
LEMMA DeletionFound ==
  ASSUME Base, Base', VerifyIntegrity, tampered = 0, NEW d \in rows, Delete(d)
  PROVE  TamperingIsFound'
<1>1. /\ tampered' = 1 /\ change'.kind = "deleted" /\ change'.row = d
      /\ change'.followed = \E g \in rows : Before(d, g)
      /\ rows' = rows \ {d}
  BY DEF Delete, Changes
<1>2. CASE ~\E g \in rows : Before(d, g)
  BY <1>1, <1>2 DEF TamperingIsFound, Fitting
<1>3. ASSUME NEW h \in rows, Before(d, h) PROVE TamperingIsFound'
  <2>1. PICK g \in rows' : FirstInvalid(g)' /\ NextRow(d, g)'
    <3> DEFINE F == {}
    <3>1. rows' = (rows \ {d}) \cup F
      BY <1>1
    <3>2. \A x \in F : x.id = d.id /\ x.time = d.time /\ x # d /\ RowValid(x)'
      OBVIOUS
    <3> HIDE DEF F
    <3> QED
      BY <1>3, <3>1, <3>2, NextIsNamed
  <2>2. NextRow(change.row, g)'
    BY <1>1, <2>1 DEF NextRow, Before
  <2> QED
    BY <1>1, <2>1, <2>2 DEF TamperingIsFound, Fitting
<1> QED
  BY <1>2, <1>3


\* What has been found stays the first invalid row, however many events follow.
LEMMA InsertFound ==
  ASSUME Orderly, Base, Ordered => Chronological, TamperingIsFound,
         NEW w \in Writers, Insert(w)
  PROVE  TamperingIsFound'
<1>1. UNCHANGED <<tampered, change>>
  BY DEF Insert
<1>2. SUFFICES ASSUME tampered = 1 /\ InPlace PROVE TamperingIsFound'
  BY <1>1 DEF TamperingIsFound, InPlace
<1>3. PICK n : /\ rows' = rows \cup {n} /\ n \notin rows
               /\ n.prev = previous[w] /\ Hashed(n)
               /\ \A e \in rows : Before(e, n)
               /\ \A e \in rows' : ~Before(n, e)
               /\ \A e \in rows : RowValid(e) <=> RowValid(e)'
  BY <1>2, Insertion DEF Ordered
<1>4. \A e \in rows : FirstInvalid(e) => FirstInvalid(e)'
  BY <1>3 DEF FirstInvalid
<1>5. \A e \in rows : NextRow(change.row, e) => NextRow(change.row, e)'
  BY <1>1, <1>3 DEF NextRow, Before
<1>6. Fitting <=> Fitting'
  BY <1>1 DEF Fitting, Hashed
<1> QED
  BY <1>1, <1>2, <1>3, <1>4, <1>5, <1>6 DEF TamperingIsFound

\* One direct change is found, and stays found.
LEMMA FoundPreserved ==
  ASSUME Orderly PROVE ChainInv /\ Base' /\ [Next]_vars => TamperingIsFound'
<1> SUFFICES ASSUME ChainInv, Base', [Next]_vars PROVE TamperingIsFound'
  OBVIOUS
<1> USE DEF ChainInv
<1>1. ASSUME NEW w \in Writers, ReadLast(w) PROVE TamperingIsFound'
  BY <1>1, SameRows DEF ReadLast
<1>2. ASSUME NEW w \in Writers, Insert(w) PROVE TamperingIsFound'
  BY <1>2, InsertFound
<1>3. ASSUME NEW w \in Writers, Abort(w) PROVE TamperingIsFound'
  BY <1>3, SameRows DEF Abort
<1>4. ASSUME NEW t \in 0..MaxTime, ClockMoves(t) PROVE TamperingIsFound'
  BY <1>4, SameRows DEF ClockMoves
<1>5. ASSUME NEW e \in rows, Delete(e) PROVE TamperingIsFound'
  <2>1. CASE tampered = 0
    BY <1>5, <2>1, DeletionFound DEF Clean
  <2>2. CASE tampered # 0
    BY <1>5, <2>2, ChainAssumption DEF TamperingIsFound, Delete, Changes, Base, TypeOK
  <2> QED
    BY <2>1, <2>2
<1>6. ASSUME NEW e \in rows, Modify(e) PROVE TamperingIsFound'
  <2>1. PICK f : Edit(e, f)
    BY <1>6, Edited
  <2>2. CASE tampered = 0
    BY <2>1, <2>2, EditFound DEF Clean
  <2>3. CASE tampered # 0
    BY <2>1, <2>3, ChainAssumption DEF TamperingIsFound, Edit, Changes, Base, TypeOK
  <2> QED
    BY <2>2, <2>3
<1>7. CASE UNCHANGED vars
  BY <1>7, SameRows DEF vars
<1> QED
  BY <1>1, <1>2, <1>3, <1>4, <1>5, <1>6, <1>7 DEF Next

\* Together: the chain's invariant under the assumptions on its order.
LEMMA ChainInvariant == ASSUME Orderly PROVE Spec => []ChainInv
<1>1. ChainInv /\ [Next]_vars => ChainInv'
  <2> SUFFICES ASSUME ChainInv, [Next]_vars PROVE ChainInv'
    OBVIOUS
  <2>1. Base'
    BY TypePreserved, TablePreserved DEF ChainInv, Base
  <2>2. (Ordered => Chronological)'
    BY ChronologicalPreserved DEF ChainInv
  <2> QED
    BY <2>1, <2>2, CleanPreserved, FoundPreserved DEF ChainInv
<1> QED
  BY <1>1, InitChain, PTL DEF Spec

\* A log nobody touched verifies as valid, at any moment and through aborted writes,
\* if one thread records and the clock orders what it records.
THEOREM NoFalseAlarm == ASSUME Orderly PROVE Spec => []UntamperedIsValid
<1>1. ChainInv => UntamperedIsValid
  BY DEF ChainInv, Clean, UntamperedIsValid
<1> QED
  BY <1>1, ChainInvariant, PTL

\* Under the same assumptions the walk names the row of one direct change that
\* leaves timestamp and event_id, however many events follow: the edited row, or
\* the next one after a deletion and after an edit that computes the hash anew.
THEOREM TamperingFound == ASSUME Orderly PROVE Spec => []TamperingIsFound
<1>1. ChainInv => TamperingIsFound
  BY DEF ChainInv
<1> QED
  BY <1>1, ChainInvariant, PTL


-----------------------------------------------------------------------------
(***************************************************************************)
(* The reader of the log.                                                  *)
(***************************************************************************)
LEMMA Interval ==
  ASSUME NEW a \in Nat, NEW n \in Nat \ {0}
  PROVE  IsFiniteSet(a..(a + n - 1)) /\ Cardinality(a..(a + n - 1)) = n
<1> DEFINE b == a + n - 1
<1>1. a \in Int /\ b \in Int /\ ~(a > b) /\ b - a + 1 = n
  OBVIOUS
<1> HIDE DEF b
<1>2. IsFiniteSet(a..b) /\ Cardinality(a..b) = n
  BY <1>1, FS_Interval
<1> QED
  BY <1>2 DEF b

\* A page after which rows are left is full.
LEMMA FullPage ==
  ASSUME Base, query.offset \in Nat, query.limit \in Nat \ {0},
         NEW e \in Matching(query.filter),
         Rank(e, query.filter) >= query.offset + query.limit
  PROVE  Cardinality(Page) >= query.limit
<1> DEFINE S == Matching(query.filter)
           n == Cardinality(S)
           wanted == query.offset .. (query.offset + query.limit - 1)
           rank == [f \in Page |-> Rank(f, query.filter)]
<1>1. /\ n \in Nat /\ Rank(e, query.filter) \in 0..n-1
      /\ \A k \in 0..n-1 : \E f \in S : Rank(f, query.filter) = k
  BY Ranks
<1>2. IsFiniteSet(wanted) /\ Cardinality(wanted) = query.limit
  BY Interval
<1>3. wanted \subseteq 0..n-1
  BY <1>1
<1>4. rank \in Surjection(Page, wanted)
  BY <1>1, <1>3 DEF Page, Surjection
<1>5. IsFiniteSet(Page)
  <2>1. Page \in SUBSET rows
    BY DEF Page, Matching
  <2> QED
    BY <2>1, FS_Subset DEF Base, Table
<1>6. Cardinality(wanted) <= Cardinality(Page)
  BY <1>4, <1>5, FS_Surjection
<1>7. Cardinality(Page) \in Nat
  BY <1>5, FS_CardinalityType
<1> QED
  BY <1>2, <1>6, <1>7


\* What is still owed while an auditor reads lies on a page to come.
Owing == query.stage = "paging" =>
  /\ query.limit \in Limits
  /\ \A i \in owed : \E e \in Matching(query.filter) :
       e.id = i /\ Rank(e, query.filter) >= query.offset

QueryInv == Base /\ QTypeOK /\ Owing /\ PagingMissesNothing

LEMMA InitQuery == QInit => QueryInv
  BY InitBase DEF QInit, QueryInv, QTypeOK, Owing, PagingMissesNothing

\* The reader changes nothing of the log.
LEMMA QueryStep == [QNext]_<<vars, reading>> => [Next]_vars
  BY DEF QNext, StartQuery, ReadPage, Go

\* Insertion moves rows to later pages, never to earlier ones.
LEMMA RanksGrow ==
  ASSUME Base, Base', rows \subseteq rows', NEW filter, NEW e \in Matching(filter)
  PROVE  /\ e \in Matching(filter)' /\ Rank(e, filter)' >= Rank(e, filter)
         /\ Rank(e, filter) \in Nat /\ Rank(e, filter)' \in Nat
<1>1. Matching(filter) \subseteq Matching(filter)'
  BY DEF Matching
<1> DEFINE Newer == {f \in Matching(filter) : Before(e, f)}
           Later == {f \in Matching(filter)' : Before(e, f)}
<1>2. Newer \in SUBSET Later
  BY <1>1
<1>3. IsFiniteSet(Later)
  <2>1. Later \in SUBSET rows'
    BY DEF Matching
  <2> QED
    BY <2>1, FS_Subset DEF Base, Table
<1>4. Cardinality(Newer) <= Cardinality(Later) /\ Cardinality(Newer) \in Nat
        /\ Cardinality(Later) \in Nat
  BY <1>2, <1>3, FS_Subset, FS_CardinalityType
<1>5. Rank(e, filter) = Cardinality(Newer) /\ Rank(e, filter)' = Cardinality(Later)
  BY DEF Rank
<1> HIDE DEF Newer, Later
<1> QED
  BY <1>1, <1>4, <1>5

\* Rows leave the table, or change, only by a direct change that is remembered.
LEMMA RowsOnlyAdded ==
  ASSUME Base, Next, tampered' = tampered PROVE rows \subseteq rows'
<1>1. ASSUME NEW w \in Writers, ReadLast(w) \/ Insert(w) \/ Abort(w) PROVE rows \subseteq rows'
  BY <1>1 DEF ReadLast, Insert, Abort
<1>2. ASSUME NEW t \in 0..MaxTime, ClockMoves(t) PROVE rows \subseteq rows'
  BY <1>2 DEF ClockMoves
<1>3. ASSUME NEW e \in rows, Delete(e) \/ Modify(e) PROVE FALSE
  <2>1. tampered' = tampered + 1 /\ tampered \in Nat
    BY <1>3, ChainAssumption DEF Delete, Modify, Changes, Base, TypeOK
  <2> QED
    BY <2>1
<1> QED
  BY <1>1, <1>2, <1>3 DEF Next

\* The ids of rows that no page has shown lie on the pages to come.
LEMMA OwingPreserved == QueryInv /\ Base' /\ [QNext]_<<vars, reading>> => Owing'
<1> SUFFICES ASSUME QueryInv, Base', [QNext]_<<vars, reading>> PROVE Owing'
  OBVIOUS
<1> USE DEF QueryInv, QTypeOK, Owing
<1>0. ASSUME UNCHANGED rows, NEW filter, NEW e
      PROVE  UNCHANGED <<Matching(filter), Rank(e, filter)>>
  BY <1>0 DEF Matching, Rank
<1>1. ASSUME NEW f \in Bodies \cup {None}, NEW n \in Limits, StartQuery(f, n) PROVE Owing'
  <2>1. /\ query' = [stage |-> "paging", filter |-> f, limit |-> n, offset |-> 0]
        /\ owed' = {e.id : e \in Matching(f)} /\ UNCHANGED rows
    BY <1>1 DEF StartQuery, vars
  <2>2. \A e \in Matching(f) : Rank(e, f) \in Nat
    BY Ranks
  <2> QED
    BY <1>0, <2>1, <2>2
<1>2. CASE ReadPage
  <2>1. CASE Cardinality(Page) < query.limit
    BY <1>2, <2>1 DEF ReadPage, Show
  <2>2. CASE ~(Cardinality(Page) < query.limit)
    <3>1. /\ query' = [query EXCEPT !.offset = query.offset + query.limit]
          /\ owed' = owed \ {e.id : e \in Page} /\ UNCHANGED rows
          /\ query.stage = "paging"
      BY <1>2, <2>2 DEF ReadPage, Show, vars
    <3>2. query.offset \in Nat /\ query.limit \in Nat
      BY <3>1, LimitAssumption
    <3>3. ASSUME NEW i \in owed'
          PROVE  \E e \in Matching(query.filter) :
                   e.id = i /\ Rank(e, query.filter) >= query.offset + query.limit
      <4>1. PICK e \in Matching(query.filter) : e.id = i /\ Rank(e, query.filter) >= query.offset
        BY <3>1, <3>3
      <4>2. Rank(e, query.filter) \in Nat
        BY Ranks
      <4>3. e \notin Page
        BY <3>1, <3>3, <4>1
      <4> QED
        BY <3>2, <4>1, <4>2, <4>3 DEF Page
    <3>4. query'.filter = query.filter /\ query'.offset = query.offset + query.limit
            /\ query'.limit = query.limit
      BY <3>1
    <3> QED
      BY <1>0, <3>1, <3>3, <3>4
  <2> QED
    BY <2>1, <2>2
<1>3. CASE Go
  <2>1. UNCHANGED query /\ Next
    BY <1>3 DEF Go
  <2>2. CASE tampered' # tampered
    BY <1>3, <2>1, <2>2 DEF Go
  <2>3. CASE tampered' = tampered
    <3>1. UNCHANGED owed /\ rows \subseteq rows'
      BY <1>3, <2>1, <2>3, RowsOnlyAdded DEF Go
    <3>2. SUFFICES ASSUME query.stage = "paging", NEW i \in owed
                   PROVE  \E e \in Matching(query.filter)' :
                            e.id = i /\ Rank(e, query.filter)' >= query.offset
      BY <2>1, <3>1
    <3>3. PICK e \in Matching(query.filter) : e.id = i /\ Rank(e, query.filter) >= query.offset
      BY <3>2
    <3>4. /\ e \in Matching(query.filter)' /\ Rank(e, query.filter)' >= Rank(e, query.filter)
          /\ Rank(e, query.filter) \in Nat /\ Rank(e, query.filter)' \in Nat
      BY <2>1, <3>1, RanksGrow
    <3> QED
      BY <3>3, <3>4
  <2> QED
    BY <2>2, <2>3
<1>4. CASE UNCHANGED <<vars, reading>>
  BY <1>0, <1>4 DEF vars, reading
<1> QED
  BY <1>1, <1>2, <1>3, <1>4 DEF QNext

\* The last page shows all that is left.
LEMMA NothingMissed == QueryInv /\ [QNext]_<<vars, reading>> => PagingMissesNothing'
<1> SUFFICES ASSUME QueryInv, [QNext]_<<vars, reading>> PROVE PagingMissesNothing'
  OBVIOUS
<1> USE DEF QueryInv, PagingMissesNothing
<1>1. ASSUME NEW f \in Bodies \cup {None}, NEW n \in Limits, StartQuery(f, n)
      PROVE  PagingMissesNothing'
  BY <1>1 DEF StartQuery
<1>2. CASE ReadPage
  <2>1. CASE Cardinality(Page) < query.limit
    <3>1. query.offset \in Nat /\ query.limit \in Nat \ {0} /\ owed' = owed \ {e.id : e \in Page}
      BY <1>2, LimitAssumption DEF ReadPage, Show, QTypeOK, Owing
    <3>2. ASSUME NEW i \in owed PROVE \E e \in Page : e.id = i
      <4>1. PICK e \in Matching(query.filter) : e.id = i /\ Rank(e, query.filter) >= query.offset
        BY <1>2, <3>2 DEF ReadPage, Owing
      <4>2. IsFiniteSet(Page)
        <5>1. Page \in SUBSET rows
          BY DEF Page, Matching
        <5> QED
          BY <5>1, FS_Subset DEF Base, Table
      <4>3. Cardinality(Page) \in Nat /\ Rank(e, query.filter) \in Nat
        BY <4>2, FS_CardinalityType, Ranks
      <4>4. ~(Rank(e, query.filter) >= query.offset + query.limit)
        BY <2>1, <3>1, <4>3, FullPage
      <4> QED
        BY <3>1, <4>1, <4>3, <4>4 DEF Page
    <3> QED
      BY <3>1, <3>2
  <2>2. CASE ~(Cardinality(Page) < query.limit)
    BY <1>2, <2>2 DEF ReadPage, Show, QTypeOK
  <2> QED
    BY <2>1, <2>2
<1>3. CASE Go
  BY <1>3 DEF Go
<1>4. CASE UNCHANGED <<vars, reading>>
  BY <1>4 DEF reading
<1> QED
  BY <1>1, <1>2, <1>3, <1>4 DEF QNext

\* The reader's variables keep their types.
LEMMA QueryTypePreserved == QueryInv /\ Base' /\ [QNext]_<<vars, reading>> => QTypeOK'
<1> SUFFICES ASSUME QueryInv, Base', [QNext]_<<vars, reading>> PROVE QTypeOK'
  OBVIOUS
<1> USE DEF QueryInv, QTypeOK
<1>1. ASSUME NEW f \in Bodies \cup {None}, NEW n \in Limits, StartQuery(f, n) PROVE QTypeOK'
  BY <1>1 DEF StartQuery, vars, Matching, Base, TypeOK
<1>2. CASE ReadPage
  <2>1. /\ owed' \subseteq owed /\ UNCHANGED used
        /\ query.limit \in Limits /\ query.offset + query.limit \in Nat
    BY <1>2, LimitAssumption DEF ReadPage, Show, Owing, vars
  <2>2. CASE Cardinality(Page) < query.limit
    BY <1>2, <2>1, <2>2 DEF ReadPage, Show
  <2>3. CASE ~(Cardinality(Page) < query.limit)
    BY <1>2, <2>1, <2>3 DEF ReadPage, Show
  <2> QED
    BY <2>2, <2>3
<1>3. CASE Go
  <2>1. used \subseteq used'
    BY <1>3 DEF Go, Next, ReadLast, Insert, Abort, ClockMoves, Delete, Modify
  <2> QED
    BY <1>3, <2>1 DEF Go
<1>4. CASE UNCHANGED <<vars, reading>>
  BY <1>4 DEF vars, reading
<1> QED
  BY <1>1, <1>2, <1>3, <1>4 DEF QNext

LEMMA QueryInvariant == QSpec => []QueryInv
<1>1. QueryInv /\ [QNext]_<<vars, reading>> => QueryInv'
  <2>1. QueryInv /\ [QNext]_<<vars, reading>> => Base'
    BY QueryStep, TypePreserved, TablePreserved DEF QueryInv, Base
  <2> QED
    BY <2>1, OwingPreserved, NothingMissed, QueryTypePreserved DEF QueryInv
<1> QED
  BY <1>1, InitQuery, PTL DEF QSpec

\* An offset is never negative, and what is owed was once in the log.
THEOREM QueriesTyped == QSpec => []QTypeOK
<1>1. QueryInv => QTypeOK
  BY DEF QueryInv
<1> QED
  BY <1>1, QueryInvariant, PTL

\* An auditor who reads to the end is shown every event that was in the log when it
\* began, whatever is recorded meanwhile and wherever the clock sorts it.
THEOREM PagingIsComplete == QSpec => []PagingMissesNothing
<1>1. QueryInv => PagingMissesNothing
  BY DEF QueryInv
<1> QED
  BY <1>1, QueryInvariant, PTL

=============================================================================
