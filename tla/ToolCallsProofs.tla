--------------------------- MODULE ToolCallsProofs ---------------------------
(***************************************************************************)
(* Theorems about ToolCalls, for every number of workers, requests, calls, *)
(* faults and policy changes.                                              *)
(***************************************************************************)
EXTENDS ToolCalls, TLAPS

(***************************************************************************)
(* The inductive invariant, one idea per conjunct.                         *)
(***************************************************************************)
\* A request that has arrived carries a call and belongs to a worker.
Carried == \A r \in Requests :
  /\ pc[r] # "idle" => call[r] \in Calls /\ worker[r] \in Workers
  /\ pc[r] = "idle" => worker[r] = None

\* A request in a stage of the loop holds it: two of one worker are the same.
LoopHeld == \A r \in Requests : pc[r] \in OnLoop => loop[worker[r]] = r

\* The outcome a stage has computed, and what it says of the wire.
OutcomeOfStage == \A r \in Requests :
  /\ pc[r] = "record0" => outcome[r] \in Verdicts
  /\ pc[r] \in {"dispatch", "awaiting"} => outcome[r] = Allowed
  /\ pc[r] = "record1" =>
       /\ outcome[r] \in Completions
       /\ outcome[r] = Executed => wire[r] = "applied"
       /\ outcome[r] = Refusal => wire[r] = "none"

\* Nothing is in the log of a request, nor on its wire, in these stages.
Undecided == {"idle", "arrived", "validate", "dedupe", "evaluate", "record0"}
WireAfterDispatch == \A r \in Requests :
  pc[r] \in Undecided \cup {"dispatch"} => wire[r] = "none"

\* An event is of a request past its decision, and repeats its call; the
\* completion and the block are the last thing a request writes.
EventsOwned == \A e \in events :
  /\ pc[e.request] \notin Undecided
  /\ e.agent = call[e.request].agent
  /\ e.key = call[e.request].key
  /\ e.sequence = 1 \/ e.outcome # Allowed => pc[e.request] \in Final

HasAuthorization(r) ==
  \E e \in events : e.request = r /\ e.sequence = 0 /\ Authorized(e)

\* Past the first record call an allowed request is in the log.
AuthorizationStored == \A r \in Requests :
  pc[r] \in {"dispatch", "awaiting", "record1"} => HasAuthorization(r)

\* Once a session has a late call, no other call of the session on that worker
\* is between its validation and its decision; the same of an agent's calls in
\* a suspension.
LateOnce ==
  /\ \A q \in late.ended :
       /\ pc[q] \notin Undecided
       /\ call[q].session \in ended
       /\ \A r \in Requests :
            pc[r] \in {"dedupe", "evaluate", "record0"} /\ worker[r] = worker[q]
              => call[r].session # call[q].session
  /\ \A q \in late.suspended :
       /\ pc[q] \notin Undecided
       /\ call[q].agent \in suspended
       /\ \A r \in Requests :
            pc[r] \in {"dedupe", "evaluate", "record0"} /\ worker[r] = worker[q]
              => call[r].agent # call[q].agent

Base == TypeOK /\ Carried /\ LoopHeld
Flow == Base /\ OutcomeOfStage /\ WireAfterDispatch /\ EventsOwned /\ AuthorizationStored
IInv == /\ Flow
        /\ AuthorizedBeforeForward /\ AuditTellsTruth /\ EventsWellFormed
        /\ AnswerIsAudited /\ LateOnce /\ RevocationWindow

-----------------------------------------------------------------------------

\* The invariant holds before any request arrives.
LEMMA InitIInv == Init => IInv
  BY BoundsAssumption DEF Init, IInv, Flow, Base, TypeOK, Carried, OutcomeOfStage, WireAfterDispatch,
     AuthorizationStored, AuthorizedBeforeForward, Stages, WireStates, EventType,
     Undecided, LoopHeld, OnLoop, Final, EventsOwned, AuditTellsTruth, EventsWellFormed,
     AnswerIsAudited, LateOnce, RevocationWindow

\* The row a record call writes is a row of the table's type.
LEMMA EventTyped ==
  ASSUME TypeOK, Carried, NEW r \in Requests, NEW n \in {0, 1},
         pc[r] # "idle", outcome[r] \in Outcomes
  PROVE  Event(r, n) \in EventType
  BY CallsAssumption DEF TypeOK, Carried, Event, EventType, CallType

\* A step keeps the types of the variables.
LEMMA TypePreserved == Flow /\ [Next]_vars => TypeOK'
<1> SUFFICES ASSUME Flow, [Next]_vars PROVE TypeOK'
  OBVIOUS
<1> USE DEF Continue, Yield, Stages, OnLoop, Final
<1>1. ASSUME NEW r \in Requests, Arrive(r) PROVE TypeOK'
  BY <1>1 DEF Flow, Base, TypeOK, Arrive, control
<1>2. ASSUME NEW r \in Requests, Authenticate(r) PROVE TypeOK'
  BY <1>2 DEF Flow, Base, TypeOK, Authenticate, control
<1>3. ASSUME NEW r \in Requests, Validate(r) PROVE TypeOK'
  BY <1>3 DEF Flow, Base, TypeOK, Validate, control
<1>4. ASSUME NEW r \in Requests, Dedupe(r) PROVE TypeOK'
  BY <1>4 DEF Flow, Base, TypeOK, Dedupe, control, Outcomes, Verdicts
<1>5. ASSUME NEW r \in Requests, Evaluate(r) PROVE TypeOK'
  BY <1>5 DEF Flow, Base, TypeOK, Evaluate, control, Outcomes, Verdicts
<1>6. ASSUME NEW r \in Requests, Record0(r) PROVE TypeOK'
  <2>1. Event(r, 0) \in EventType
    BY <1>6, EventTyped DEF Flow, Base, Record0, OutcomeOfStage, Outcomes
  <2> QED
    BY <1>6, <2>1 DEF Flow, Base, TypeOK, Record0, control
<1>7. ASSUME NEW r \in Requests, Dispatch(r) PROVE TypeOK'
  BY <1>7 DEF Flow, Base, TypeOK, Dispatch, control, WireStates, Outcomes, Completions
<1>8. ASSUME NEW r \in Requests, Resume(r) PROVE TypeOK'
  BY <1>8 DEF Flow, Base, TypeOK, Resume, ResumeExecuted, ResumeRejected, ResumeTimeout,
     ResumeUnreadable, ResumeWith, control, Outcomes, Completions
<1>9. ASSUME NEW r \in Requests, Record1(r) PROVE TypeOK'
  <2>1. Event(r, 1) \in EventType
    BY <1>9, EventTyped DEF Flow, Base, Record1, OutcomeOfStage, Outcomes
  <2> QED
    BY <1>9, <2>1 DEF Flow, Base, TypeOK, Record1, control
<1>10. ASSUME NEW r \in Requests, RecordOverlong(r) PROVE TypeOK'
  BY <1>10 DEF Flow, Base, TypeOK, RecordOverlong, control
<1>11. ASSUME NEW r \in Requests, CrmAnswers(r) PROVE TypeOK'
  BY <1>11 DEF Flow, Base, TypeOK, CrmAnswers, coroutines, control, WireStates
<1>12. ASSUME NEW r \in Requests, DatabaseFails(r) PROVE TypeOK'
  <2>1. pc[r] = "record0" => Event(r, 0) \in EventType
    BY EventTyped DEF Flow, Base, OutcomeOfStage, Outcomes
  <2>2. pc[r] = "record1" => Event(r, 1) \in EventType
    BY EventTyped DEF Flow, Base, OutcomeOfStage, Outcomes
  <2>3. events' \subseteq EventType
    BY <1>12, <2>1, <2>2 DEF Flow, Base, TypeOK, DatabaseFails
  <2>4. faults' \in 0..MaxFaults
    BY <1>12, BoundsAssumption DEF Flow, Base, TypeOK, DatabaseFails
  <2> QED
    BY <1>12, <2>3, <2>4 DEF Flow, Base, TypeOK, DatabaseFails, control
<1>13. ASSUME NEW w \in Workers, Crash(w) PROVE TypeOK'
  BY <1>13, BoundsAssumption DEF Flow, Base, TypeOK, Crash, control
<1>14. CASE Control
  BY <1>14, BoundsAssumption
     DEF Flow, Base, TypeOK, Control, EndSession, SetAgentStatus, ChangePolicy, coroutines
<1>15. CASE UNCHANGED vars
  BY <1>15 DEF Flow, Base, TypeOK, vars, coroutines, control
<1> QED
  BY <1>1, <1>2, <1>3, <1>4, <1>5, <1>6, <1>7, <1>8, <1>9, <1>10, <1>11, <1>12,
     <1>13, <1>14, <1>15 DEF Next, Step

\* A request keeps its call and its worker once it has arrived.
LEMMA CarriedPreserved == Base /\ [Next]_vars => Carried'
<1> SUFFICES ASSUME Base, [Next]_vars PROVE Carried'
  OBVIOUS
<1> USE DEF Base, TypeOK, Carried, control, Continue, Yield, Stages, OnLoop, Final
<1>1. ASSUME NEW r \in Requests, Arrive(r) PROVE Carried'
  BY <1>1 DEF Arrive
<1>2. ASSUME NEW r \in Requests, Authenticate(r) PROVE Carried'
  BY <1>2 DEF Authenticate
<1>3. ASSUME NEW r \in Requests, Validate(r) PROVE Carried'
  BY <1>3 DEF Validate
<1>4. ASSUME NEW r \in Requests, Dedupe(r) PROVE Carried'
  BY <1>4 DEF Dedupe
<1>5. ASSUME NEW r \in Requests, Evaluate(r) PROVE Carried'
  BY <1>5 DEF Evaluate
<1>6. ASSUME NEW r \in Requests, Record0(r) PROVE Carried'
  BY <1>6 DEF Record0
<1>7. ASSUME NEW r \in Requests, Dispatch(r) PROVE Carried'
  BY <1>7 DEF Dispatch
<1>8. ASSUME NEW r \in Requests, Resume(r) PROVE Carried'
  BY <1>8 DEF Resume, ResumeExecuted, ResumeRejected, ResumeTimeout,
     ResumeUnreadable, ResumeWith
<1>9. ASSUME NEW r \in Requests, Record1(r) PROVE Carried'
  BY <1>9 DEF Record1
<1>10. ASSUME NEW r \in Requests, RecordOverlong(r) PROVE Carried'
  BY <1>10 DEF RecordOverlong
<1>11. ASSUME NEW r \in Requests, CrmAnswers(r) PROVE Carried'
  BY <1>11 DEF CrmAnswers, coroutines
<1>12. ASSUME NEW r \in Requests, DatabaseFails(r) PROVE Carried'
  BY <1>12 DEF DatabaseFails
<1>13. ASSUME NEW w \in Workers, Crash(w) PROVE Carried'
  BY <1>13, NoneAssumption DEF Crash
<1>14. CASE Control
  BY <1>14 DEF Control, EndSession, SetAgentStatus, ChangePolicy, coroutines
<1>15. CASE UNCHANGED vars
  BY <1>15 DEF vars, coroutines
<1> QED
  BY <1>1, <1>2, <1>3, <1>4, <1>5, <1>6, <1>7, <1>8, <1>9, <1>10, <1>11, <1>12,
     <1>13, <1>14, <1>15 DEF Next, Step

\* A request in a stage of OnLoop is the holder of its worker's loop.
LEMMA LoopHeldPreserved == Base /\ [Next]_vars => LoopHeld'
<1> SUFFICES ASSUME Base, [Next]_vars PROVE LoopHeld'
  OBVIOUS
<1> USE DEF Base, TypeOK, Carried, LoopHeld, control, Continue, Yield, Stages, OnLoop, Final
<1>1. ASSUME NEW r \in Requests, Arrive(r) PROVE LoopHeld'
  BY <1>1 DEF Arrive
<1>2. ASSUME NEW r \in Requests, Authenticate(r) PROVE LoopHeld'
  BY <1>2, NoneAssumption DEF Authenticate
<1>3. ASSUME NEW r \in Requests, Validate(r) PROVE LoopHeld'
  BY <1>3 DEF Validate
<1>4. ASSUME NEW r \in Requests, Dedupe(r) PROVE LoopHeld'
  BY <1>4 DEF Dedupe
<1>5. ASSUME NEW r \in Requests, Evaluate(r) PROVE LoopHeld'
  BY <1>5 DEF Evaluate
<1>6. ASSUME NEW r \in Requests, Record0(r) PROVE LoopHeld'
  BY <1>6 DEF Record0
<1>7. ASSUME NEW r \in Requests, Dispatch(r) PROVE LoopHeld'
  BY <1>7 DEF Dispatch
<1>8. ASSUME NEW r \in Requests, Resume(r) PROVE LoopHeld'
  BY <1>8, NoneAssumption DEF Resume, ResumeExecuted, ResumeRejected, ResumeTimeout,
     ResumeUnreadable, ResumeWith
<1>9. ASSUME NEW r \in Requests, Record1(r) PROVE LoopHeld'
  BY <1>9 DEF Record1
<1>10. ASSUME NEW r \in Requests, RecordOverlong(r) PROVE LoopHeld'
  BY <1>10 DEF RecordOverlong
<1>11. ASSUME NEW r \in Requests, CrmAnswers(r) PROVE LoopHeld'
  BY <1>11 DEF CrmAnswers, coroutines
<1>12. ASSUME NEW r \in Requests, DatabaseFails(r) PROVE LoopHeld'
  BY <1>12 DEF DatabaseFails
<1>13. ASSUME NEW w \in Workers, Crash(w) PROVE LoopHeld'
  BY <1>13, NoneAssumption DEF Crash
<1>14. CASE Control
  BY <1>14 DEF Control, EndSession, SetAgentStatus, ChangePolicy, coroutines
<1>15. CASE UNCHANGED vars
  BY <1>15 DEF vars, coroutines
<1> QED
  BY <1>1, <1>2, <1>3, <1>4, <1>5, <1>6, <1>7, <1>8, <1>9, <1>10, <1>11, <1>12,
     <1>13, <1>14, <1>15 DEF Next, Step

\* The outcome computed so far is one its stage can have.
LEMMA OutcomePreserved == Flow /\ [Next]_vars => OutcomeOfStage'
<1> SUFFICES ASSUME Flow, [Next]_vars PROVE OutcomeOfStage'
  OBVIOUS
<1> USE DEF Flow, Base, TypeOK, Carried, OutcomeOfStage, WireAfterDispatch,
           control, Continue, Yield, OnLoop, Final,
           Verdicts, Completions, Duplicate, Denied, Allowed,
           Executed, TimedOut, ToolError, Refusal, Outcome
<1>1. ASSUME NEW r \in Requests, Arrive(r) PROVE OutcomeOfStage'
  BY <1>1 DEF Arrive
<1>2. ASSUME NEW r \in Requests, Authenticate(r) PROVE OutcomeOfStage'
  BY <1>2 DEF Authenticate
<1>3. ASSUME NEW r \in Requests, Validate(r) PROVE OutcomeOfStage'
  BY <1>3 DEF Validate
<1>4. ASSUME NEW r \in Requests, Dedupe(r) PROVE OutcomeOfStage'
  BY <1>4 DEF Dedupe
<1>5. ASSUME NEW r \in Requests, Evaluate(r) PROVE OutcomeOfStage'
  BY <1>5 DEF Evaluate
<1>6. ASSUME NEW r \in Requests, Record0(r) PROVE OutcomeOfStage'
  BY <1>6 DEF Record0
<1>7. ASSUME NEW r \in Requests, Dispatch(r) PROVE OutcomeOfStage'
  BY <1>7 DEF Dispatch
<1>8. ASSUME NEW r \in Requests, Resume(r) PROVE OutcomeOfStage'
  BY <1>8 DEF Resume, ResumeExecuted, ResumeRejected, ResumeTimeout,
     ResumeUnreadable, ResumeWith
<1>9. ASSUME NEW r \in Requests, Record1(r) PROVE OutcomeOfStage'
  BY <1>9 DEF Record1
<1>10. ASSUME NEW r \in Requests, RecordOverlong(r) PROVE OutcomeOfStage'
  BY <1>10 DEF RecordOverlong
<1>11. ASSUME NEW r \in Requests, CrmAnswers(r) PROVE OutcomeOfStage'
  BY <1>11 DEF CrmAnswers, coroutines
<1>12. ASSUME NEW r \in Requests, DatabaseFails(r) PROVE OutcomeOfStage'
  BY <1>12 DEF DatabaseFails
<1>13. ASSUME NEW w \in Workers, Crash(w) PROVE OutcomeOfStage'
  BY <1>13 DEF Crash
<1>14. CASE Control
  BY <1>14 DEF Control, EndSession, SetAgentStatus, ChangePolicy, coroutines
<1>15. CASE UNCHANGED vars
  BY <1>15 DEF vars, coroutines
<1> QED
  BY <1>1, <1>2, <1>3, <1>4, <1>5, <1>6, <1>7, <1>8, <1>9, <1>10, <1>11, <1>12,
     <1>13, <1>14, <1>15 DEF Next, Step

\* Nothing is on the wire for a request that was not dispatched.
LEMMA WirePreserved == Flow /\ [Next]_vars => WireAfterDispatch'
<1> SUFFICES ASSUME Flow, [Next]_vars PROVE WireAfterDispatch'
  OBVIOUS
<1> USE DEF Flow, Base, TypeOK, Carried, WireAfterDispatch, Undecided, control, Continue, Yield, OnLoop, Final
<1>1. ASSUME NEW r \in Requests, Arrive(r) PROVE WireAfterDispatch'
  BY <1>1 DEF Arrive
<1>2. ASSUME NEW r \in Requests, Authenticate(r) PROVE WireAfterDispatch'
  BY <1>2 DEF Authenticate
<1>3. ASSUME NEW r \in Requests, Validate(r) PROVE WireAfterDispatch'
  BY <1>3 DEF Validate
<1>4. ASSUME NEW r \in Requests, Dedupe(r) PROVE WireAfterDispatch'
  BY <1>4 DEF Dedupe
<1>5. ASSUME NEW r \in Requests, Evaluate(r) PROVE WireAfterDispatch'
  BY <1>5 DEF Evaluate
<1>6. ASSUME NEW r \in Requests, Record0(r) PROVE WireAfterDispatch'
  BY <1>6 DEF Record0
<1>7. ASSUME NEW r \in Requests, Dispatch(r) PROVE WireAfterDispatch'
  BY <1>7 DEF Dispatch
<1>8. ASSUME NEW r \in Requests, Resume(r) PROVE WireAfterDispatch'
  BY <1>8 DEF Resume, ResumeExecuted, ResumeRejected, ResumeTimeout,
     ResumeUnreadable, ResumeWith
<1>9. ASSUME NEW r \in Requests, Record1(r) PROVE WireAfterDispatch'
  BY <1>9 DEF Record1
<1>10. ASSUME NEW r \in Requests, RecordOverlong(r) PROVE WireAfterDispatch'
  BY <1>10 DEF RecordOverlong
<1>11. ASSUME NEW r \in Requests, CrmAnswers(r) PROVE WireAfterDispatch'
  BY <1>11 DEF CrmAnswers, coroutines
<1>12. ASSUME NEW r \in Requests, DatabaseFails(r) PROVE WireAfterDispatch'
  BY <1>12 DEF DatabaseFails
<1>13. ASSUME NEW w \in Workers, Crash(w) PROVE WireAfterDispatch'
  BY <1>13 DEF Crash
<1>14. CASE Control
  BY <1>14 DEF Control, EndSession, SetAgentStatus, ChangePolicy, coroutines
<1>15. CASE UNCHANGED vars
  BY <1>15 DEF vars, coroutines
<1> QED
  BY <1>1, <1>2, <1>3, <1>4, <1>5, <1>6, <1>7, <1>8, <1>9, <1>10, <1>11, <1>12,
     <1>13, <1>14, <1>15 DEF Next, Step

\* An event names the session, agent and key of its request.
LEMMA OwnedPreserved == Flow /\ [Next]_vars => EventsOwned'
<1> SUFFICES ASSUME Flow, [Next]_vars PROVE EventsOwned'
  OBVIOUS
<1> USE DEF Flow, Base, TypeOK, Carried, OutcomeOfStage, EventsOwned, Undecided, EventType, Event,
           control, Continue, Yield, OnLoop, Final,
           Verdicts, Completions, Duplicate, Denied, Allowed,
           Executed, TimedOut, ToolError, Refusal, Outcome
<1>1. ASSUME NEW r \in Requests, Arrive(r) PROVE EventsOwned'
  BY <1>1 DEF Arrive
<1>2. ASSUME NEW r \in Requests, Authenticate(r) PROVE EventsOwned'
  BY <1>2 DEF Authenticate
<1>3. ASSUME NEW r \in Requests, Validate(r) PROVE EventsOwned'
  BY <1>3 DEF Validate
<1>4. ASSUME NEW r \in Requests, Dedupe(r) PROVE EventsOwned'
  BY <1>4 DEF Dedupe
<1>5. ASSUME NEW r \in Requests, Evaluate(r) PROVE EventsOwned'
  BY <1>5 DEF Evaluate
<1>6. ASSUME NEW r \in Requests, Record0(r) PROVE EventsOwned'
  BY <1>6 DEF Record0
<1>7. ASSUME NEW r \in Requests, Dispatch(r) PROVE EventsOwned'
  BY <1>7 DEF Dispatch
<1>8. ASSUME NEW r \in Requests, Resume(r) PROVE EventsOwned'
  BY <1>8 DEF Resume, ResumeExecuted, ResumeRejected, ResumeTimeout,
     ResumeUnreadable, ResumeWith
<1>9. ASSUME NEW r \in Requests, Record1(r) PROVE EventsOwned'
  BY <1>9 DEF Record1
<1>10. ASSUME NEW r \in Requests, RecordOverlong(r) PROVE EventsOwned'
  BY <1>10 DEF RecordOverlong
<1>11. ASSUME NEW r \in Requests, CrmAnswers(r) PROVE EventsOwned'
  BY <1>11 DEF CrmAnswers, coroutines
<1>12. ASSUME NEW r \in Requests, DatabaseFails(r) PROVE EventsOwned'
  BY <1>12 DEF DatabaseFails
<1>13. ASSUME NEW w \in Workers, Crash(w) PROVE EventsOwned'
  BY <1>13 DEF Crash
<1>14. CASE Control
  BY <1>14 DEF Control, EndSession, SetAgentStatus, ChangePolicy, coroutines
<1>15. CASE UNCHANGED vars
  BY <1>15 DEF vars, coroutines
<1> QED
  BY <1>1, <1>2, <1>3, <1>4, <1>5, <1>6, <1>7, <1>8, <1>9, <1>10, <1>11, <1>12,
     <1>13, <1>14, <1>15 DEF Next, Step

\* A request that has passed the first record call has its decision stored.
LEMMA StoredPreserved == Flow /\ [Next]_vars => AuthorizationStored'
<1> SUFFICES ASSUME Flow, [Next]_vars PROVE AuthorizationStored'
  OBVIOUS
<1> USE DEF Flow, Base, TypeOK, OutcomeOfStage, AuthorizationStored, HasAuthorization, Authorized, Event,
           control, Continue, Yield, OnLoop, Final,
           Verdicts, Completions, Duplicate, Denied, Allowed,
           Executed, TimedOut, ToolError, Refusal, Outcome
<1>1. ASSUME NEW r \in Requests, Arrive(r) PROVE AuthorizationStored'
  BY <1>1 DEF Arrive
<1>2. ASSUME NEW r \in Requests, Authenticate(r) PROVE AuthorizationStored'
  BY <1>2 DEF Authenticate
<1>3. ASSUME NEW r \in Requests, Validate(r) PROVE AuthorizationStored'
  BY <1>3 DEF Validate
<1>4. ASSUME NEW r \in Requests, Dedupe(r) PROVE AuthorizationStored'
  BY <1>4 DEF Dedupe
<1>5. ASSUME NEW r \in Requests, Evaluate(r) PROVE AuthorizationStored'
  BY <1>5 DEF Evaluate
<1>6. ASSUME NEW r \in Requests, Record0(r) PROVE AuthorizationStored'
  <2> SUFFICES ASSUME NEW q \in Requests, pc'[q] \in {"dispatch", "awaiting", "record1"}
               PROVE  HasAuthorization(q)'
    OBVIOUS
  <2>1. CASE q = r
    <3>1. outcome[r] = Allowed
      BY <1>6, <2>1 DEF Record0
    <3>2. Event(r, 0) \in events'
      BY <1>6 DEF Record0
    <3> QED
      BY <2>1, <3>1, <3>2
  <2>2. CASE q # r
    BY <1>6, <2>2 DEF Record0
  <2> QED
    BY <2>1, <2>2
<1>7. ASSUME NEW r \in Requests, Dispatch(r) PROVE AuthorizationStored'
  BY <1>7 DEF Dispatch
<1>8. ASSUME NEW r \in Requests, Resume(r) PROVE AuthorizationStored'
  BY <1>8 DEF Resume, ResumeExecuted, ResumeRejected, ResumeTimeout,
     ResumeUnreadable, ResumeWith
<1>9. ASSUME NEW r \in Requests, Record1(r) PROVE AuthorizationStored'
  BY <1>9 DEF Record1
<1>10. ASSUME NEW r \in Requests, RecordOverlong(r) PROVE AuthorizationStored'
  BY <1>10 DEF RecordOverlong
<1>11. ASSUME NEW r \in Requests, CrmAnswers(r) PROVE AuthorizationStored'
  BY <1>11 DEF CrmAnswers, coroutines
<1>12. ASSUME NEW r \in Requests, DatabaseFails(r) PROVE AuthorizationStored'
  BY <1>12 DEF DatabaseFails
<1>13. ASSUME NEW w \in Workers, Crash(w) PROVE AuthorizationStored'
  BY <1>13 DEF Crash
<1>14. CASE Control
  BY <1>14 DEF Control, EndSession, SetAgentStatus, ChangePolicy, coroutines
<1>15. CASE UNCHANGED vars
  BY <1>15 DEF vars, coroutines
<1> QED
  BY <1>1, <1>2, <1>3, <1>4, <1>5, <1>6, <1>7, <1>8, <1>9, <1>10, <1>11, <1>12,
     <1>13, <1>14, <1>15 DEF Next, Step

-----------------------------------------------------------------------------
(* The safety properties, each from the invariant of the flow *)

\* Nothing is forwarded before the authorization is stored.
LEMMA ForwardPreserved == Flow /\ AuthorizedBeforeForward /\ [Next]_vars => AuthorizedBeforeForward'
<1> SUFFICES ASSUME Flow /\ AuthorizedBeforeForward, [Next]_vars PROVE AuthorizedBeforeForward'
  OBVIOUS
<1> USE DEF Flow, Base, TypeOK, OutcomeOfStage, AuthorizationStored, HasAuthorization,
           AuthorizedBeforeForward, control, Continue, Yield, OnLoop, Final
<1>1. ASSUME NEW r \in Requests, Arrive(r) PROVE AuthorizedBeforeForward'
  BY <1>1 DEF Arrive
<1>2. ASSUME NEW r \in Requests, Authenticate(r) PROVE AuthorizedBeforeForward'
  BY <1>2 DEF Authenticate
<1>3. ASSUME NEW r \in Requests, Validate(r) PROVE AuthorizedBeforeForward'
  BY <1>3 DEF Validate
<1>4. ASSUME NEW r \in Requests, Dedupe(r) PROVE AuthorizedBeforeForward'
  BY <1>4 DEF Dedupe
<1>5. ASSUME NEW r \in Requests, Evaluate(r) PROVE AuthorizedBeforeForward'
  BY <1>5 DEF Evaluate
<1>6. ASSUME NEW r \in Requests, Record0(r) PROVE AuthorizedBeforeForward'
  BY <1>6 DEF Record0
<1>7. ASSUME NEW r \in Requests, Dispatch(r) PROVE AuthorizedBeforeForward'
  BY <1>7 DEF Dispatch
<1>8. ASSUME NEW r \in Requests, Resume(r) PROVE AuthorizedBeforeForward'
  BY <1>8 DEF Resume, ResumeExecuted, ResumeRejected, ResumeTimeout,
     ResumeUnreadable, ResumeWith
<1>9. ASSUME NEW r \in Requests, Record1(r) PROVE AuthorizedBeforeForward'
  BY <1>9 DEF Record1
<1>10. ASSUME NEW r \in Requests, RecordOverlong(r) PROVE AuthorizedBeforeForward'
  BY <1>10 DEF RecordOverlong
<1>11. ASSUME NEW r \in Requests, CrmAnswers(r) PROVE AuthorizedBeforeForward'
  BY <1>11 DEF CrmAnswers, coroutines
<1>12. ASSUME NEW r \in Requests, DatabaseFails(r) PROVE AuthorizedBeforeForward'
  BY <1>12 DEF DatabaseFails
<1>13. ASSUME NEW w \in Workers, Crash(w) PROVE AuthorizedBeforeForward'
  BY <1>13 DEF Crash
<1>14. CASE Control
  BY <1>14 DEF Control, EndSession, SetAgentStatus, ChangePolicy, coroutines
<1>15. CASE UNCHANGED vars
  BY <1>15 DEF vars, coroutines
<1> QED
  BY <1>1, <1>2, <1>3, <1>4, <1>5, <1>6, <1>7, <1>8, <1>9, <1>10, <1>11, <1>12,
     <1>13, <1>14, <1>15 DEF Next, Step

\* What the audit log says of a request is what happened on the wire.
LEMMA TruthPreserved == Flow /\ AuditTellsTruth /\ [Next]_vars => AuditTellsTruth'
<1> SUFFICES ASSUME Flow /\ AuditTellsTruth, [Next]_vars PROVE AuditTellsTruth'
  OBVIOUS
<1> USE DEF Flow, Base, TypeOK, OutcomeOfStage, WireAfterDispatch, EventsOwned, Undecided,
           AuditTellsTruth, EventType, Event, control, Continue, Yield, OnLoop, Final,
           Verdicts, Completions, Duplicate, Denied, Allowed,
           Executed, TimedOut, ToolError, Refusal, Outcome
<1>1. ASSUME NEW r \in Requests, Arrive(r) PROVE AuditTellsTruth'
  BY <1>1 DEF Arrive
<1>2. ASSUME NEW r \in Requests, Authenticate(r) PROVE AuditTellsTruth'
  BY <1>2 DEF Authenticate
<1>3. ASSUME NEW r \in Requests, Validate(r) PROVE AuditTellsTruth'
  BY <1>3 DEF Validate
<1>4. ASSUME NEW r \in Requests, Dedupe(r) PROVE AuditTellsTruth'
  BY <1>4 DEF Dedupe
<1>5. ASSUME NEW r \in Requests, Evaluate(r) PROVE AuditTellsTruth'
  BY <1>5 DEF Evaluate
<1>6. ASSUME NEW r \in Requests, Record0(r) PROVE AuditTellsTruth'
  BY <1>6 DEF Record0
<1>7. ASSUME NEW r \in Requests, Dispatch(r) PROVE AuditTellsTruth'
  BY <1>7 DEF Dispatch
<1>8. ASSUME NEW r \in Requests, Resume(r) PROVE AuditTellsTruth'
  BY <1>8 DEF Resume, ResumeExecuted, ResumeRejected, ResumeTimeout,
     ResumeUnreadable, ResumeWith
<1>9. ASSUME NEW r \in Requests, Record1(r) PROVE AuditTellsTruth'
  BY <1>9 DEF Record1
<1>10. ASSUME NEW r \in Requests, RecordOverlong(r) PROVE AuditTellsTruth'
  BY <1>10 DEF RecordOverlong
<1>11. ASSUME NEW r \in Requests, CrmAnswers(r) PROVE AuditTellsTruth'
  BY <1>11 DEF CrmAnswers, coroutines
<1>12. ASSUME NEW r \in Requests, DatabaseFails(r) PROVE AuditTellsTruth'
  BY <1>12 DEF DatabaseFails
<1>13. ASSUME NEW w \in Workers, Crash(w) PROVE AuditTellsTruth'
  BY <1>13 DEF Crash
<1>14. CASE Control
  BY <1>14 DEF Control, EndSession, SetAgentStatus, ChangePolicy, coroutines
<1>15. CASE UNCHANGED vars
  BY <1>15 DEF vars, coroutines
<1> QED
  BY <1>1, <1>2, <1>3, <1>4, <1>5, <1>6, <1>7, <1>8, <1>9, <1>10, <1>11, <1>12,
     <1>13, <1>14, <1>15 DEF Next, Step

\* A request's events stay one decision and at most one completion.
LEMMA WellFormedPreserved == Flow /\ EventsWellFormed /\ [Next]_vars => EventsWellFormed'
<1> SUFFICES ASSUME Flow /\ EventsWellFormed, [Next]_vars PROVE EventsWellFormed'
  OBVIOUS
<1> USE DEF Flow, Base, TypeOK, OutcomeOfStage, AuthorizationStored, HasAuthorization, EventsOwned, Undecided,
           EventsWellFormed, Authorized, EventType, Event, control, Continue, Yield, OnLoop, Final,
           Verdicts, Completions, Duplicate, Denied, Allowed,
           Executed, TimedOut, ToolError, Refusal, Outcome
<1>1. ASSUME NEW r \in Requests, Arrive(r) PROVE EventsWellFormed'
  BY <1>1 DEF Arrive
<1>2. ASSUME NEW r \in Requests, Authenticate(r) PROVE EventsWellFormed'
  BY <1>2 DEF Authenticate
<1>3. ASSUME NEW r \in Requests, Validate(r) PROVE EventsWellFormed'
  BY <1>3 DEF Validate
<1>4. ASSUME NEW r \in Requests, Dedupe(r) PROVE EventsWellFormed'
  BY <1>4 DEF Dedupe
<1>5. ASSUME NEW r \in Requests, Evaluate(r) PROVE EventsWellFormed'
  BY <1>5 DEF Evaluate
<1>6. ASSUME NEW r \in Requests, Record0(r) PROVE EventsWellFormed'
  BY <1>6 DEF Record0
<1>7. ASSUME NEW r \in Requests, Dispatch(r) PROVE EventsWellFormed'
  BY <1>7 DEF Dispatch
<1>8. ASSUME NEW r \in Requests, Resume(r) PROVE EventsWellFormed'
  BY <1>8 DEF Resume, ResumeExecuted, ResumeRejected, ResumeTimeout,
     ResumeUnreadable, ResumeWith
<1>9. ASSUME NEW r \in Requests, Record1(r) PROVE EventsWellFormed'
  BY <1>9 DEF Record1
<1>10. ASSUME NEW r \in Requests, RecordOverlong(r) PROVE EventsWellFormed'
  BY <1>10 DEF RecordOverlong
<1>11. ASSUME NEW r \in Requests, CrmAnswers(r) PROVE EventsWellFormed'
  BY <1>11 DEF CrmAnswers, coroutines
<1>12. ASSUME NEW r \in Requests, DatabaseFails(r) PROVE EventsWellFormed'
  BY <1>12 DEF DatabaseFails
<1>13. ASSUME NEW w \in Workers, Crash(w) PROVE EventsWellFormed'
  BY <1>13 DEF Crash
<1>14. CASE Control
  BY <1>14 DEF Control, EndSession, SetAgentStatus, ChangePolicy, coroutines
<1>15. CASE UNCHANGED vars
  BY <1>15 DEF vars, coroutines
<1> QED
  BY <1>1, <1>2, <1>3, <1>4, <1>5, <1>6, <1>7, <1>8, <1>9, <1>10, <1>11, <1>12,
     <1>13, <1>14, <1>15 DEF Next, Step

\* What a client was answered stays in the log.
LEMMA AnswerPreserved == Flow /\ AnswerIsAudited /\ [Next]_vars => AnswerIsAudited'
<1> SUFFICES ASSUME Flow /\ AnswerIsAudited, [Next]_vars PROVE AnswerIsAudited'
  OBVIOUS
<1> USE DEF Flow, Base, TypeOK, OutcomeOfStage, EventsOwned, Undecided,
           AnswerIsAudited, EventType, Event, control, Continue, Yield, OnLoop, Final,
           Verdicts, Completions, Duplicate, Denied, Allowed,
           Executed, TimedOut, ToolError, Refusal, Outcome
<1>1. ASSUME NEW r \in Requests, Arrive(r) PROVE AnswerIsAudited'
  BY <1>1 DEF Arrive
<1>2. ASSUME NEW r \in Requests, Authenticate(r) PROVE AnswerIsAudited'
  BY <1>2 DEF Authenticate
<1>3. ASSUME NEW r \in Requests, Validate(r) PROVE AnswerIsAudited'
  BY <1>3 DEF Validate
<1>4. ASSUME NEW r \in Requests, Dedupe(r) PROVE AnswerIsAudited'
  BY <1>4 DEF Dedupe
<1>5. ASSUME NEW r \in Requests, Evaluate(r) PROVE AnswerIsAudited'
  BY <1>5 DEF Evaluate
<1>6. ASSUME NEW r \in Requests, Record0(r) PROVE AnswerIsAudited'
  <2> SUFFICES ASSUME NEW q \in Requests, pc'[q] = "answered"
               PROVE  \E e \in events' : /\ e.request = q /\ e.outcome = outcome'[q]
                        /\ \A f \in events' : f.request = q => f.sequence <= e.sequence
    OBVIOUS
  <2>1. CASE q = r
    <3>1. Event(r, 0) \in events' /\ outcome' = outcome
      BY <1>6 DEF Record0
    <3>2. \A f \in events' : f.request = r => f.sequence <= 0
      BY <1>6 DEF Record0
    <3> QED
      BY <2>1, <3>1, <3>2
  <2>2. CASE q # r
    <3>1. PICK e \in events : /\ e.request = q /\ e.outcome = outcome[q]
                              /\ \A f \in events : f.request = q => f.sequence <= e.sequence
      BY <1>6, <2>2 DEF Record0
    <3> QED
      BY <1>6, <2>2, <3>1 DEF Record0
  <2> QED
    BY <2>1, <2>2
<1>7. ASSUME NEW r \in Requests, Dispatch(r) PROVE AnswerIsAudited'
  BY <1>7 DEF Dispatch
<1>8. ASSUME NEW r \in Requests, Resume(r) PROVE AnswerIsAudited'
  BY <1>8 DEF Resume, ResumeExecuted, ResumeRejected, ResumeTimeout,
     ResumeUnreadable, ResumeWith
<1>9. ASSUME NEW r \in Requests, Record1(r) PROVE AnswerIsAudited'
  <2> SUFFICES ASSUME NEW q \in Requests, pc'[q] = "answered"
               PROVE  \E e \in events' : /\ e.request = q /\ e.outcome = outcome'[q]
                        /\ \A f \in events' : f.request = q => f.sequence <= e.sequence
    OBVIOUS
  <2>1. CASE q = r
    <3>1. Event(r, 1) \in events' /\ outcome' = outcome
      BY <1>9 DEF Record1
    <3>2. \A f \in events' : f.request = r => f.sequence <= 1
      BY <1>9 DEF Record1
    <3> QED
      BY <2>1, <3>1, <3>2
  <2>2. CASE q # r
    <3>1. PICK e \in events : /\ e.request = q /\ e.outcome = outcome[q]
                              /\ \A f \in events : f.request = q => f.sequence <= e.sequence
      BY <1>9, <2>2 DEF Record1
    <3> QED
      BY <1>9, <2>2, <3>1 DEF Record1
  <2> QED
    BY <2>1, <2>2
<1>10. ASSUME NEW r \in Requests, RecordOverlong(r) PROVE AnswerIsAudited'
  BY <1>10 DEF RecordOverlong
<1>11. ASSUME NEW r \in Requests, CrmAnswers(r) PROVE AnswerIsAudited'
  BY <1>11 DEF CrmAnswers, coroutines
<1>12. ASSUME NEW r \in Requests, DatabaseFails(r) PROVE AnswerIsAudited'
  BY <1>12 DEF DatabaseFails
<1>13. ASSUME NEW w \in Workers, Crash(w) PROVE AnswerIsAudited'
  BY <1>13 DEF Crash
<1>14. CASE Control
  BY <1>14 DEF Control, EndSession, SetAgentStatus, ChangePolicy, coroutines
<1>15. CASE UNCHANGED vars
  BY <1>15 DEF vars, coroutines
<1> QED
  BY <1>1, <1>2, <1>3, <1>4, <1>5, <1>6, <1>7, <1>8, <1>9, <1>10, <1>11, <1>12,
     <1>13, <1>14, <1>15 DEF Next, Step

\* A call authorized after its session ended, or while its agent is suspended,
\* had validated both before.
LEMMA LatePreserved == Flow /\ LateOnce /\ [Next]_vars => LateOnce'
<1> SUFFICES ASSUME Flow /\ LateOnce, [Next]_vars PROVE LateOnce'
  OBVIOUS
<1> USE DEF Flow, Base, TypeOK, Carried, LoopHeld, SessionValid, ActiveAgent,
           LateOnce, Undecided, control, Continue, Yield, OnLoop, Final
<1>1. ASSUME NEW r \in Requests, Arrive(r) PROVE LateOnce'
  BY <1>1 DEF Arrive
<1>2. ASSUME NEW r \in Requests, Authenticate(r) PROVE LateOnce'
  BY <1>2 DEF Authenticate
<1>3. ASSUME NEW r \in Requests, Validate(r) PROVE LateOnce'
  BY <1>3 DEF Validate
<1>4. ASSUME NEW r \in Requests, Dedupe(r) PROVE LateOnce'
  BY <1>4 DEF Dedupe
<1>5. ASSUME NEW r \in Requests, Evaluate(r) PROVE LateOnce'
  BY <1>5 DEF Evaluate
<1>6. ASSUME NEW r \in Requests, Record0(r) PROVE LateOnce'
  BY <1>6 DEF Record0
<1>7. ASSUME NEW r \in Requests, Dispatch(r) PROVE LateOnce'
  BY <1>7 DEF Dispatch
<1>8. ASSUME NEW r \in Requests, Resume(r) PROVE LateOnce'
  BY <1>8 DEF Resume, ResumeExecuted, ResumeRejected, ResumeTimeout,
     ResumeUnreadable, ResumeWith
<1>9. ASSUME NEW r \in Requests, Record1(r) PROVE LateOnce'
  BY <1>9 DEF Record1
<1>10. ASSUME NEW r \in Requests, RecordOverlong(r) PROVE LateOnce'
  BY <1>10 DEF RecordOverlong
<1>11. ASSUME NEW r \in Requests, CrmAnswers(r) PROVE LateOnce'
  BY <1>11 DEF CrmAnswers, coroutines
<1>12. ASSUME NEW r \in Requests, DatabaseFails(r) PROVE LateOnce'
  BY <1>12 DEF DatabaseFails
<1>13. ASSUME NEW w \in Workers, Crash(w) PROVE LateOnce'
  BY <1>13 DEF Crash
<1>14. CASE Control
  BY <1>14 DEF Control, EndSession, SetAgentStatus, ChangePolicy, coroutines
<1>15. CASE UNCHANGED vars
  BY <1>15 DEF vars, coroutines
<1> QED
  BY <1>1, <1>2, <1>3, <1>4, <1>5, <1>6, <1>7, <1>8, <1>9, <1>10, <1>11, <1>12,
     <1>13, <1>14, <1>15 DEF Next, Step

\* At most one call of a session per worker is authorized after its end, and of
\* an agent in a suspension.
LEMMA WindowPreserved == Flow /\ LateOnce /\ RevocationWindow /\ [Next]_vars => RevocationWindow'
<1> SUFFICES ASSUME Flow /\ LateOnce /\ RevocationWindow, [Next]_vars PROVE RevocationWindow'
  OBVIOUS
<1> USE DEF Flow, Base, TypeOK, Carried, LateOnce, Undecided,
           RevocationWindow, control, Continue, Yield, OnLoop, Final
<1>1. ASSUME NEW r \in Requests, Arrive(r) PROVE RevocationWindow'
  BY <1>1 DEF Arrive
<1>2. ASSUME NEW r \in Requests, Authenticate(r) PROVE RevocationWindow'
  BY <1>2 DEF Authenticate
<1>3. ASSUME NEW r \in Requests, Validate(r) PROVE RevocationWindow'
  BY <1>3 DEF Validate
<1>4. ASSUME NEW r \in Requests, Dedupe(r) PROVE RevocationWindow'
  BY <1>4 DEF Dedupe
<1>5. ASSUME NEW r \in Requests, Evaluate(r) PROVE RevocationWindow'
  BY <1>5 DEF Evaluate
<1>6. ASSUME NEW r \in Requests, Record0(r) PROVE RevocationWindow'
  BY <1>6 DEF Record0
<1>7. ASSUME NEW r \in Requests, Dispatch(r) PROVE RevocationWindow'
  BY <1>7 DEF Dispatch
<1>8. ASSUME NEW r \in Requests, Resume(r) PROVE RevocationWindow'
  BY <1>8 DEF Resume, ResumeExecuted, ResumeRejected, ResumeTimeout,
     ResumeUnreadable, ResumeWith
<1>9. ASSUME NEW r \in Requests, Record1(r) PROVE RevocationWindow'
  BY <1>9 DEF Record1
<1>10. ASSUME NEW r \in Requests, RecordOverlong(r) PROVE RevocationWindow'
  BY <1>10 DEF RecordOverlong
<1>11. ASSUME NEW r \in Requests, CrmAnswers(r) PROVE RevocationWindow'
  BY <1>11 DEF CrmAnswers, coroutines
<1>12. ASSUME NEW r \in Requests, DatabaseFails(r) PROVE RevocationWindow'
  BY <1>12 DEF DatabaseFails
<1>13. ASSUME NEW w \in Workers, Crash(w) PROVE RevocationWindow'
  BY <1>13 DEF Crash
<1>14. CASE Control
  BY <1>14 DEF Control, EndSession, SetAgentStatus, ChangePolicy, coroutines
<1>15. CASE UNCHANGED vars
  BY <1>15 DEF vars, coroutines
<1> QED
  BY <1>1, <1>2, <1>3, <1>4, <1>5, <1>6, <1>7, <1>8, <1>9, <1>10, <1>11, <1>12,
     <1>13, <1>14, <1>15 DEF Next, Step

\* Every step preserves the inductive invariant.
LEMMA StepIInv == IInv /\ [Next]_vars => IInv'
  BY TypePreserved, CarriedPreserved, LoopHeldPreserved, OutcomePreserved, WirePreserved,
     OwnedPreserved, StoredPreserved, ForwardPreserved, TruthPreserved,
     WellFormedPreserved, AnswerPreserved, LatePreserved, WindowPreserved
     DEF IInv, Flow, Base

\* Every reachable state satisfies the inductive invariant.
LEMMA IInvAlways == Spec => []IInv
<1>1. Init => IInv
  BY InitIInv
<1>2. IInv /\ [Next]_vars => IInv'
  BY StepIInv
<1> QED
  BY <1>1, <1>2, PTL DEF Spec

-----------------------------------------------------------------------------
(* Theorems for any number of workers *)

\* Every variable keeps its type.
THEOREM TypeCorrect == Spec => []TypeOK
<1>1. IInv => TypeOK
  BY DEF IInv, Flow, Base
<1> QED
  BY <1>1, IInvAlways, PTL

\* No call reaches the tool without a stored authorization (tool_calls.py:111).
THEOREM AuditPrecedesForwarding == Spec => []AuthorizedBeforeForward
<1>1. IInv => AuthorizedBeforeForward
  BY DEF IInv
<1> QED
  BY <1>1, IInvAlways, PTL

\* The log claims no effect that did not happen, and no event says a forwarded
\* call was not forwarded (tool_calls.py:142).
THEOREM AuditIsTrue == Spec => []AuditTellsTruth
<1>1. IInv => AuditTellsTruth
  BY DEF IInv
<1> QED
  BY <1>1, IInvAlways, PTL

\* One decision per request, then at most one completion (models.py:196).
THEOREM LogIsWellFormed == Spec => []EventsWellFormed
<1>1. IInv => EventsWellFormed
  BY DEF IInv
<1> QED
  BY <1>1, IInvAlways, PTL

\* An answer the client gets is in the log (tool_calls.py:56, 87, 147, 174).
THEOREM AnswersAreAudited == Spec => []AnswerIsAudited
<1>1. IInv => AnswerIsAudited
  BY DEF IInv
<1> QED
  BY <1>1, IInvAlways, PTL

\* At most one call per worker is authorized on an ended session, and at most
\* one per suspension of its agent (tool_routes.py:89, sessions.py:208).
THEOREM RevocationIsPrompt == Spec => []RevocationWindow
<1>1. IInv => RevocationWindow
  BY DEF IInv
<1> QED
  BY <1>1, IInvAlways, PTL

-----------------------------------------------------------------------------
(***************************************************************************)
(* At most once per idempotency key.  Between has_idempotency_key and the  *)
(* first record call another worker could decide the same key; with one    *)
(* worker the loop excludes it, and that is what the deployment runs       *)
(* (docker/Dockerfile.production:41, infra/terraform/main.tf:470).         *)
(***************************************************************************)
SingleWorker == \A v, w \in Workers : v = w

\* A request about to decide on a fresh key is the only one to know the key.
KeyFresh == \A r \in Requests :
  pc[r] = "evaluate" \/ (pc[r] = "record0" /\ outcome[r] # Duplicate)
    => ~HasIdempotencyKey(call[r])

\* A key is authorized once, and nothing else was decided with it before.
AuthorizedOnce == \A e, f \in events :
  Authorized(e) /\ Authorized(f) /\ e.agent = f.agent /\ e.key = f.key
    => e.request = f.request

\* With one worker, a request past the duplicate check has a fresh key.
LEMMA KeyFreshPreserved == SingleWorker /\ Flow /\ KeyFresh /\ [Next]_vars => KeyFresh'
<1> SUFFICES ASSUME SingleWorker /\ Flow /\ KeyFresh, [Next]_vars PROVE KeyFresh'
  OBVIOUS
<1> USE NoneAssumption DEF SingleWorker, Flow, Base, TypeOK, Carried, LoopHeld, OutcomeOfStage, KeyFresh,
           HasIdempotencyKey, Event, control, Continue, Yield, OnLoop, Final,
           Duplicate, Denied, Allowed, Executed, TimedOut, ToolError, Refusal, Outcome
<1>1. ASSUME NEW r \in Requests, Arrive(r) PROVE KeyFresh'
  BY <1>1 DEF Arrive
<1>2. ASSUME NEW r \in Requests, Authenticate(r) PROVE KeyFresh'
  BY <1>2 DEF Authenticate
<1>3. ASSUME NEW r \in Requests, Validate(r) PROVE KeyFresh'
  BY <1>3 DEF Validate
<1>4. ASSUME NEW r \in Requests, Dedupe(r) PROVE KeyFresh'
  BY <1>4 DEF Dedupe
<1>5. ASSUME NEW r \in Requests, Evaluate(r) PROVE KeyFresh'
  BY <1>5 DEF Evaluate
<1>6. ASSUME NEW r \in Requests, Record0(r) PROVE KeyFresh'
  BY <1>6 DEF Record0
<1>7. ASSUME NEW r \in Requests, Dispatch(r) PROVE KeyFresh'
  BY <1>7 DEF Dispatch
<1>8. ASSUME NEW r \in Requests, Resume(r) PROVE KeyFresh'
  BY <1>8 DEF Resume, ResumeExecuted, ResumeRejected, ResumeTimeout,
     ResumeUnreadable, ResumeWith
<1>9. ASSUME NEW r \in Requests, Record1(r) PROVE KeyFresh'
  BY <1>9 DEF Record1
<1>10. ASSUME NEW r \in Requests, RecordOverlong(r) PROVE KeyFresh'
  BY <1>10 DEF RecordOverlong
<1>11. ASSUME NEW r \in Requests, CrmAnswers(r) PROVE KeyFresh'
  BY <1>11 DEF CrmAnswers, coroutines
<1>12. ASSUME NEW r \in Requests, DatabaseFails(r) PROVE KeyFresh'
  BY <1>12 DEF DatabaseFails
<1>13. ASSUME NEW w \in Workers, Crash(w) PROVE KeyFresh'
  BY <1>13 DEF Crash
<1>14. CASE Control
  BY <1>14 DEF Control, EndSession, SetAgentStatus, ChangePolicy, coroutines
<1>15. CASE UNCHANGED vars
  BY <1>15 DEF vars, coroutines
<1> QED
  BY <1>1, <1>2, <1>3, <1>4, <1>5, <1>6, <1>7, <1>8, <1>9, <1>10, <1>11, <1>12,
     <1>13, <1>14, <1>15 DEF Next, Step

\* With one worker, a key is authorized at most once.
LEMMA OncePreserved == Flow /\ KeyFresh /\ AuthorizedOnce /\ [Next]_vars => AuthorizedOnce'
<1> SUFFICES ASSUME Flow /\ KeyFresh /\ AuthorizedOnce, [Next]_vars PROVE AuthorizedOnce'
  OBVIOUS
<1> USE DEF Flow, Base, TypeOK, Carried, OutcomeOfStage, KeyFresh, AuthorizedOnce,
           HasIdempotencyKey, Authorized, Event, EventType, control, Continue, Yield, OnLoop, Final,
           Verdicts, Completions, Duplicate, Denied, Allowed, Executed, TimedOut, ToolError, Refusal, Outcome
<1>1. ASSUME NEW r \in Requests, Arrive(r) PROVE AuthorizedOnce'
  BY <1>1 DEF Arrive
<1>2. ASSUME NEW r \in Requests, Authenticate(r) PROVE AuthorizedOnce'
  BY <1>2 DEF Authenticate
<1>3. ASSUME NEW r \in Requests, Validate(r) PROVE AuthorizedOnce'
  BY <1>3 DEF Validate
<1>4. ASSUME NEW r \in Requests, Dedupe(r) PROVE AuthorizedOnce'
  BY <1>4 DEF Dedupe
<1>5. ASSUME NEW r \in Requests, Evaluate(r) PROVE AuthorizedOnce'
  BY <1>5 DEF Evaluate
<1>6. ASSUME NEW r \in Requests, Record0(r) PROVE AuthorizedOnce'
  BY <1>6 DEF Record0
<1>7. ASSUME NEW r \in Requests, Dispatch(r) PROVE AuthorizedOnce'
  BY <1>7 DEF Dispatch
<1>8. ASSUME NEW r \in Requests, Resume(r) PROVE AuthorizedOnce'
  BY <1>8 DEF Resume, ResumeExecuted, ResumeRejected, ResumeTimeout,
     ResumeUnreadable, ResumeWith
<1>9. ASSUME NEW r \in Requests, Record1(r) PROVE AuthorizedOnce'
  BY <1>9 DEF Record1
<1>10. ASSUME NEW r \in Requests, RecordOverlong(r) PROVE AuthorizedOnce'
  BY <1>10 DEF RecordOverlong
<1>11. ASSUME NEW r \in Requests, CrmAnswers(r) PROVE AuthorizedOnce'
  BY <1>11 DEF CrmAnswers, coroutines
<1>12. ASSUME NEW r \in Requests, DatabaseFails(r) PROVE AuthorizedOnce'
  BY <1>12 DEF DatabaseFails
<1>13. ASSUME NEW w \in Workers, Crash(w) PROVE AuthorizedOnce'
  BY <1>13 DEF Crash
<1>14. CASE Control
  BY <1>14 DEF Control, EndSession, SetAgentStatus, ChangePolicy, coroutines
<1>15. CASE UNCHANGED vars
  BY <1>15 DEF vars, coroutines
<1> QED
  BY <1>1, <1>2, <1>3, <1>4, <1>5, <1>6, <1>7, <1>8, <1>9, <1>10, <1>11, <1>12,
     <1>13, <1>14, <1>15 DEF Next, Step

\* With one worker every reachable state has these invariants too.
LEMMA FreshAlways ==
  ASSUME SingleWorker
  PROVE  Spec => [](IInv /\ KeyFresh /\ AuthorizedOnce)
<1> DEFINE Inv == IInv /\ KeyFresh /\ AuthorizedOnce
<1>1. Init => Inv
  BY InitIInv DEF Init, KeyFresh, AuthorizedOnce
<1>2. Inv /\ [Next]_vars => Inv'
  BY SingleWorker, StepIInv, KeyFreshPreserved, OncePreserved DEF IInv
<1> QED
  BY <1>1, <1>2, PTL DEF Spec

\* One worker forwards a key at most once, whatever crashes, times out or is
\* retried (tool_calls.py:49).
THEOREM ForwardedAtMostOnce ==
  ASSUME SingleWorker
  PROVE  Spec => []AtMostOncePerKey
<1>1. IInv /\ KeyFresh /\ AuthorizedOnce => AtMostOncePerKey
  <2> SUFFICES ASSUME IInv, AuthorizedOnce, NEW q \in Requests, NEW r \in Requests,
                      wire[q] # "none", wire[r] # "none", AgentKey(q) = AgentKey(r)
               PROVE  q = r
    BY DEF AtMostOncePerKey
  <2>1. PICK e \in events : e.request = q /\ Authorized(e)
    BY DEF IInv, AuthorizedBeforeForward
  <2>2. PICK f \in events : f.request = r /\ Authorized(f)
    BY DEF IInv, AuthorizedBeforeForward
  <2>3. e.agent = f.agent /\ e.key = f.key
    BY <2>1, <2>2 DEF IInv, Flow, EventsOwned, AgentKey
  <2> QED
    BY <2>1, <2>2, <2>3 DEF AuthorizedOnce
<1> QED
  BY <1>1, SingleWorker, FreshAlways, PTL
=============================================================================
