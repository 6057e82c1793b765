----------------------------- MODULE LedgerProofs -----------------------------
(***************************************************************************)
(* ToolCalls, run by one worker, implements CallLedger, for every number   *)
(* of requests, calls, faults and changes: initial states map to initial   *)
(* states, and every step to a step of the ledger or to none.              *)
(***************************************************************************)
EXTENDS ToolCallsRefinement, ToolCallsProofs

\* What the refinement rests on: the invariants that hold with one worker.
LInv == IInv /\ KeyFresh /\ AuthorizedOnce

\* Storing one of its events, the only thing a request does to the log.
Stores(r, n) ==
  /\ pc[r] = IF n = 0 THEN "record0" ELSE "record1"
  /\ events' = events \cup {Event(r, n)}
  /\ wire' = wire

\* A step stores an event, or is the CRM carrying a request out, or shows
\* neither in the log nor in what was carried out.
LEMMA StepsSeen ==
  Flow /\ [Next]_vars =>
    \/ \E r \in Requests, n \in {0, 1} : Stores(r, n)
    \/ /\ events' = events
       /\ \E r \in Requests : wire[r] = "sent" /\ wire' = [wire EXCEPT ![r] = "applied"]
    \/ events' = events /\ LedgerEffect' = LedgerEffect
<1> SUFFICES ASSUME Flow, [Next]_vars,
                    ~ \E r \in Requests, n \in {0, 1} : Stores(r, n)
             PROVE  /\ events' = events
                    /\ \/ \E r \in Requests : wire[r] = "sent" /\ wire' = [wire EXCEPT ![r] = "applied"]
                       \/ LedgerEffect' = LedgerEffect
  OBVIOUS
<1> USE DEF Stores, LedgerEffect
<1>1. ASSUME NEW r \in Requests, Record0(r) \/ Record1(r) PROVE FALSE
  BY <1>1 DEF Record0, Record1
<1>2. ASSUME NEW r \in Requests, DatabaseFails(r) PROVE events' = events /\ wire' = wire
  BY <1>2 DEF DatabaseFails
<1>3. ASSUME NEW r \in Requests, Dispatch(r) PROVE events' = events /\ LedgerEffect' = LedgerEffect
  BY <1>3 DEF Dispatch, Flow, Base, TypeOK, WireAfterDispatch
<1>4. ASSUME NEW r \in Requests, CrmAnswers(r)
      PROVE  /\ events' = events
             /\ \/ wire[r] = "sent" /\ wire' = [wire EXCEPT ![r] = "applied"]
                \/ LedgerEffect' = LedgerEffect
  BY <1>4 DEF CrmAnswers, Flow, Base, TypeOK
<1>5. ASSUME NEW r \in Requests,
             Arrive(r) \/ Authenticate(r) \/ Validate(r) \/ Dedupe(r) \/ Evaluate(r)
               \/ Resume(r) \/ RecordOverlong(r)
      PROVE  events' = events /\ wire' = wire
  BY <1>5 DEF Arrive, Authenticate, Validate, Dedupe, Evaluate, Resume, ResumeExecuted,
     ResumeRejected, ResumeTimeout, ResumeUnreadable, ResumeWith, RecordOverlong
<1>6. ASSUME NEW w \in Workers, Crash(w) PROVE events' = events /\ wire' = wire
  BY <1>6 DEF Crash
<1>7. CASE Control
  BY <1>7 DEF Control, EndSession, SetAgentStatus, ChangePolicy
<1>8. CASE UNCHANGED vars
  BY <1>8 DEF vars
<1> QED
  BY <1>1, <1>2, <1>3, <1>4, <1>5, <1>6, <1>7, <1>8 DEF Next, Step

\* A request and a sequence number name one event of a well-formed log.
LEMMA OneEvent ==
  ASSUME NEW S, NEW e \in S, \A f \in S : f.request = e.request /\ f.sequence = e.sequence => f = e
  PROVE  (CHOOSE f \in S : f.request = e.request /\ f.sequence = e.sequence) = e
  OBVIOUS

\* An event that is stored becomes the one of its request and number, which had
\* none, and leaves all others as they were.
LEMMA StoredAlone ==
  ASSUME LInv, LInv', NEW r \in Requests, NEW n \in {0, 1}, Stores(r, n)
  PROVE  /\ ~HasEvent(r, n)
         /\ HasEvent(r, n)' /\ EventOf(r, n)' = Event(r, n)
         /\ \A q \in Requests, k \in {0, 1} : q # r \/ k # n =>
              /\ HasEvent(q, k)' = HasEvent(q, k)
              /\ HasEvent(q, k) => EventOf(q, k)' = EventOf(q, k)
<1> USE DEF LInv, IInv, EventsWellFormed, HasEvent
<1>1. Event(r, n).request = r /\ Event(r, n).sequence = n /\ Event(r, n) \in events'
  BY DEF Event, Stores
<1>2. ~HasEvent(r, n)
  BY DEF Stores, Flow, EventsOwned, Undecided, Final
<1>3. EventOf(r, n)' = Event(r, n)
  <2>1. \A f \in events' : f.request = r /\ f.sequence = n => f = Event(r, n)
    BY <1>1
  <2> QED
    BY <1>1, <2>1, OneEvent DEF EventOf
<1>4. ASSUME NEW q \in Requests, NEW k \in {0, 1}, q # r \/ k # n
      PROVE  /\ HasEvent(q, k)' = HasEvent(q, k)
             /\ HasEvent(q, k) => EventOf(q, k)' = EventOf(q, k)
  <2>1. HasEvent(q, k)' = HasEvent(q, k)
    BY <1>1, <1>4 DEF Stores
  <2>2. ASSUME NEW e \in events, e.request = q, e.sequence = k
        PROVE  EventOf(q, k) = e /\ EventOf(q, k)' = e
    <3>1. \A f \in events : f.request = q /\ f.sequence = k => f = e
      BY <2>2
    <3>2. e \in events' /\ \A f \in events' : f.request = q /\ f.sequence = k => f = e
      BY <2>2, <3>1, <1>1, <1>4 DEF Stores
    <3> QED
      BY <2>2, <3>1, <3>2, OneEvent DEF EventOf
  <2> QED
    BY <2>1, <2>2
<1> QED
  BY <1>1, <1>2, <1>3, <1>4

\* The authorization of a request, as the ledger knows it.
LEMMA AuthorizationKnown ==
  ASSUME LInv, NEW r \in Requests, NEW e \in events,
         e.request = r, e.sequence = 0, Authorized(e)
  PROVE  Ledger!IsAuthorized(r)
<1>1. \A f \in events : f.request = r /\ f.sequence = 0 => f = e
  BY DEF LInv, IInv, EventsWellFormed
<1>2. HasEvent(r, 0) /\ EventOf(r, 0) = e
  BY <1>1, OneEvent DEF HasEvent, EventOf
<1>3. e \in EventType
  BY DEF LInv, IInv, Flow, Base, TypeOK
<1>4. DecisionOf(e) \in [key : Agents \X Keys, verdict : {"blocked", "authorized"}]
  BY <1>3 DEF DecisionOf, EventType
<1> QED
  BY <1>2, <1>4, LedgerAssumption DEF LedgerDecision, DecisionOf, Ledger!IsAuthorized

\* A first event is a decision of the ledger.
LEMMA FirstEventDecides ==
  ASSUME LInv, LInv', NEW r \in Requests, Stores(r, 0)
  PROVE  Ledger!Next
<1> DEFINE e == Event(r, 0)
           k == <<call[r].agent, call[r].key>>
<1>1. /\ LedgerDecision[r] = None
      /\ LedgerDecision' = [LedgerDecision EXCEPT ![r] = DecisionOf(e)]
      /\ LedgerCompletion' = LedgerCompletion /\ LedgerEffect' = LedgerEffect
  <2>1. /\ ~HasEvent(r, 0) /\ HasEvent(r, 0)' /\ EventOf(r, 0)' = Event(r, 0)
        /\ \A q \in Requests, n \in {0, 1} : q # r \/ n # 0 =>
              /\ HasEvent(q, n)' = HasEvent(q, n)
              /\ HasEvent(q, n) => EventOf(q, n)' = EventOf(q, n)
    BY StoredAlone
  <2>2. LedgerEffect' = LedgerEffect
    BY DEF Stores, LedgerEffect
  <2>3. LedgerCompletion' = LedgerCompletion
    BY <2>1 DEF LedgerCompletion
  <2>4. LedgerDecision[r] = None
    BY <2>1 DEF LedgerDecision
  <2>5. LedgerDecision'[r] = DecisionOf(e)
    BY <2>1 DEF LedgerDecision, DecisionOf, Authorized
  <2>6. ASSUME NEW q \in Requests \ {r} PROVE LedgerDecision'[q] = LedgerDecision[q]
    BY <2>1 DEF LedgerDecision, DecisionOf, Authorized
  <2> QED
    BY <2>2, <2>3, <2>4, <2>5, <2>6 DEF LedgerDecision
<1>2. /\ pc[r] = "record0" /\ outcome[r] \in {Duplicate, Denied, Allowed}
      /\ call[r] \in Calls /\ k \in Agents \X Keys
  BY CallsAssumption DEF LInv, IInv, Flow, Base, Carried, OutcomeOfStage, Stores, Verdicts, CallType
<1>3. CASE outcome[r] # Allowed
  <2>1. DecisionOf(e) = [key |-> k, verdict |-> "blocked"]
    BY <1>3 DEF DecisionOf, Event, Authorized
  <2>2. Ledger!Block(r, k)
    BY <1>1, <2>1 DEF Ledger!Block, Ledger!Decide
  <2> QED
    BY <1>2, <2>2 DEF Ledger!Next
<1>4. CASE outcome[r] = Allowed
  <2>1. DecisionOf(e) = [key |-> k, verdict |-> "authorized"]
    BY <1>4 DEF DecisionOf, Event, Authorized
  <2>2. ~HasIdempotencyKey(call[r])
    BY <1>2, <1>4 DEF LInv, KeyFresh, Allowed, Duplicate, Outcome
  <2>3. ASSUME NEW q \in Requests, LedgerDecision[q] # None PROVE LedgerDecision[q].key # k
    <3>1. PICK f \in events : f.request = q /\ f.sequence = 0
      BY <2>3 DEF LedgerDecision, HasEvent
    <3>2. \A g \in events : g.request = q /\ g.sequence = 0 => g = f
      BY <3>1 DEF LInv, IInv, EventsWellFormed
    <3>3. EventOf(q, 0) = f
      BY <3>1, <3>2, OneEvent DEF EventOf
    <3> QED
      BY <2>2, <2>3, <3>1, <3>3 DEF LedgerDecision, HasEvent, DecisionOf, HasIdempotencyKey
  <2>4. Ledger!Authorize(r, k)
    BY <1>1, <2>1, <2>3 DEF Ledger!Authorize, Ledger!Decide
  <2> QED
    BY <1>2, <2>4 DEF Ledger!Next
<1> QED
  BY <1>3, <1>4

\* A second event completes an authorized request and tells the truth.
LEMMA SecondEventCompletes ==
  ASSUME LInv, LInv', NEW r \in Requests, Stores(r, 1)
  PROVE  Ledger!Next
<1> DEFINE c == outcome[r].status
<1>1. /\ LedgerCompletion[r] = None
      /\ LedgerCompletion' = [LedgerCompletion EXCEPT ![r] = c]
      /\ LedgerDecision' = LedgerDecision /\ LedgerEffect' = LedgerEffect
  <2>1. /\ ~HasEvent(r, 1) /\ HasEvent(r, 1)' /\ EventOf(r, 1)' = Event(r, 1)
        /\ \A q \in Requests, n \in {0, 1} : q # r \/ n # 1 =>
              /\ HasEvent(q, n)' = HasEvent(q, n)
              /\ HasEvent(q, n) => EventOf(q, n)' = EventOf(q, n)
    BY StoredAlone
  <2>2. LedgerEffect' = LedgerEffect
    BY DEF Stores, LedgerEffect
  <2>3. LedgerDecision' = LedgerDecision
    BY <2>1 DEF LedgerDecision, DecisionOf, Authorized
  <2>4. LedgerCompletion[r] = None
    BY <2>1 DEF LedgerCompletion
  <2>5. LedgerCompletion'[r] = c
    BY <2>1 DEF LedgerCompletion, Event
  <2>6. ASSUME NEW q \in Requests \ {r} PROVE LedgerCompletion'[q] = LedgerCompletion[q]
    BY <2>1 DEF LedgerCompletion
  <2> QED
    BY <2>2, <2>3, <2>4, <2>5, <2>6 DEF LedgerCompletion
<1>2. pc[r] = "record1" /\ outcome[r] \in Completions
  BY DEF LInv, IInv, Flow, OutcomeOfStage, Stores
<1>3. c \in {"executed", "timed_out", "tool_failed"} /\ (c = "executed" => outcome[r] = Executed)
  BY <1>2 DEF Completions, Executed, TimedOut, ToolError, Refusal, Outcome
<1>4. c = "executed" => LedgerEffect[r]
  BY <1>2, <1>3 DEF LInv, IInv, Flow, OutcomeOfStage, LedgerEffect
<1>5. Ledger!IsAuthorized(r)
  <2>1. PICK e \in events : e.request = r /\ e.sequence = 0 /\ Authorized(e)
    BY <1>2 DEF LInv, IInv, Flow, AuthorizationStored, HasAuthorization
  <2> QED
    BY <2>1, AuthorizationKnown
<1>6. PICK d \in Ledger!Completion : d = c
  BY <1>3 DEF Ledger!Completion
<1>7. Ledger!Complete(r, d)
  BY <1>1, <1>4, <1>5, <1>6 DEF Ledger!Complete
<1> QED
  BY <1>6, <1>7 DEF Ledger!Next

\* What the CRM carries out is an effect of the ledger, once and authorized.
LEMMA CarriedOut ==
  ASSUME LInv, events' = events, NEW r \in Requests,
         wire[r] = "sent", wire' = [wire EXCEPT ![r] = "applied"]
  PROVE  Ledger!Next
<1>1. LedgerEffect' = [LedgerEffect EXCEPT ![r] = TRUE] /\ ~LedgerEffect[r]
  BY DEF LedgerEffect, LInv, IInv, Flow, Base, TypeOK
<1>2. LedgerDecision' = LedgerDecision /\ LedgerCompletion' = LedgerCompletion
  BY DEF LedgerDecision, LedgerCompletion, HasEvent, EventOf, DecisionOf, Authorized
<1>3. Ledger!IsAuthorized(r)
  <2>1. PICK e \in events : e.request = r /\ e.sequence = 0 /\ Authorized(e)
    BY DEF LInv, IInv, AuthorizedBeforeForward
  <2> QED
    BY <2>1, AuthorizationKnown
<1>4. Ledger!Apply(r)
  BY <1>1, <1>2, <1>3 DEF Ledger!Apply
<1> QED
  BY <1>4 DEF Ledger!Next

-----------------------------------------------------------------------------
\* One worker keeps the ledger: a request is decided once, a key authorized once,
\* and nothing is carried out or completed without its authorization
\* (tool_calls.py:35).
THEOREM EnforcementKeepsLedger ==
  ASSUME SingleWorker
  PROVE  Spec => ImplementsLedger
<1>1. Init => Ledger!Init
  BY DEF Init, Ledger!Init, LedgerDecision, LedgerEffect, LedgerCompletion, HasEvent
<1>2. LInv /\ LInv' /\ [Next]_vars => [Ledger!Next]_Ledger!vars
  <2> SUFFICES ASSUME LInv, LInv', [Next]_vars PROVE [Ledger!Next]_Ledger!vars
    OBVIOUS
  <2>1. ASSUME NEW r \in Requests, NEW n \in {0, 1}, Stores(r, n) PROVE Ledger!Next
    BY <2>1, FirstEventDecides, SecondEventCompletes
  <2>2. ASSUME events' = events, NEW r \in Requests,
               wire[r] = "sent", wire' = [wire EXCEPT ![r] = "applied"]
        PROVE  Ledger!Next
    BY <2>2, CarriedOut
  <2>3. ASSUME events' = events, LedgerEffect' = LedgerEffect PROVE UNCHANGED Ledger!vars
    BY <2>3 DEF Ledger!vars, LedgerDecision, LedgerCompletion, HasEvent, EventOf, DecisionOf, Authorized
  <2> QED
    BY <2>1, <2>2, <2>3, StepsSeen DEF LInv, IInv
<1>3. Spec => []LInv
  BY SingleWorker, FreshAlways DEF LInv
<1> QED
  BY <1>1, <1>2, <1>3, PTL DEF Spec, ImplementsLedger, Ledger!Spec
====
