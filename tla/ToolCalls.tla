------------------------------ MODULE ToolCalls ------------------------------
(***************************************************************************)
(* The enforcement path of the permission proxy: POST /v1/tool-calls       *)
(* (api/tool_routes.py), ToolCallService.execute (tool_calls.py) and the   *)
(* CRM adapter (tools/crm.py), as the worker processes run them.           *)
(*                                                                         *)
(* The endpoint is a coroutine of its worker's event loop and every        *)
(* database call in it is synchronous: from authentication until the       *)
(* adapter awaits the network the request holds the loop, and it takes it  *)
(* again to audit the result.  Each database transaction is one action, so *)
(* session revocation, agent suspension and policy changes, which run in   *)
(* other threads or processes, come between any two of them.               *)
(*                                                                         *)
(* Left to other modules: the hash chain of the audit table (AuditChain),  *)
(* how a policy decides (PolicyEvaluator), the session and manifest        *)
(* services (Sessions, Manifests), the CRM rows (CustomerSeed).            *)
(***************************************************************************)
EXTENDS Naturals, FiniteSets

CONSTANTS Workers,     \* processes serving the proxy, each with one event loop
          Requests,    \* incoming POST /v1/tool-calls requests, one request_id each
          Agents, Sessions, Keys, Operations,
          Calls,       \* the calls clients make, a set of records (CallType)
          SessionAgent,\* the agent each trusted session is bound to
          MaxFaults,   \* bound on worker crashes and database failures
          MaxChanges,  \* bound on suspensions and policy changes
          None

(***************************************************************************)
(* What a call may look like.  "credential" is whether its bearer token    *)
(* decodes to an agent principal with scope tool:invoke; "form" what the   *)
(* adapter makes of the parameters before it awaits anything; "trace"      *)
(* whether the Traceparent header fits the trace_id column.                *)
(***************************************************************************)
Forms == {"sends", "refused", "raises"}
CallType == [agent : Agents, session : Sessions, key : Keys,
             operation : Operations, credential : BOOLEAN,
             form : Forms, trace : {"fits", "overlong"}]

ASSUME CallsAssumption == Calls \subseteq CallType
ASSUME SessionAgentAssumption == SessionAgent \in [Sessions -> Agents]
ASSUME NoneAssumption == None \notin Requests /\ None \notin Calls /\ None \notin Workers
ASSUME BoundsAssumption == MaxFaults \in Nat /\ MaxChanges \in Nat

VARIABLES
  pc,        \* where the coroutine of each request stands
  call,      \* the call a request carries, None before it arrives
  worker,    \* the worker process that serves it, None before it arrives
  loop,      \* the request that holds each worker's event loop, or None
  outcome,   \* the ToolCallOutcome computed so far
  wire,      \* the HTTP request to the CRM
  events,    \* rows of tool_call_audit_events
  ended,     \* sessions that are revoked or past expires_at
  suspended, \* agents whose status is not active
  allowed,   \* operations the active manifest of each agent permits
  late,      \* history: requests authorized after their session had ended, and
             \* while their agent was suspended
  faults, changes

coroutines == <<pc, call, worker, loop, outcome>>
control == <<ended, suspended, allowed, changes>>
vars == <<coroutines, wire, events, control, late, faults>>

-----------------------------------------------------------------------------
\* The ToolCallOutcomes of execute, each with the status it is audited with.
Outcome(decision, status, reason) ==
  [decision |-> decision, status |-> status, reason |-> reason]
Duplicate == Outcome("block", "not_forwarded", "DUPLICATE_REQUEST")
Denied    == Outcome("block", "not_forwarded", "POLICY_DENIED")
Allowed   == Outcome("allow", "authorized", "ALLOWED")
Executed  == Outcome("allow", "executed", "ALLOWED")
TimedOut  == Outcome("error", "timed_out", "UPSTREAM_TOOL_TIMEOUT")
ToolError == Outcome("error", "tool_failed", "UPSTREAM_TOOL_ERROR")
Refusal   == Outcome("error", "tool_failed", "ADAPTER_REFUSED")
Verdicts == {Duplicate, Denied, Allowed}
Completions == {Executed, TimedOut, ToolError, Refusal}
Outcomes == Verdicts \cup Completions

\* Stages in which a request holds its worker's event loop.
OnLoop == {"validate", "dedupe", "evaluate", "record0", "dispatch", "record1"}
Final == {"answered", "refused", "failed", "lost"}
Stages == {"idle", "arrived", "awaiting"} \cup OnLoop \cup Final
WireStates == {"none", "sent", "applied", "rejected", "dropped"}

EventType == [request : Requests, agent : Agents, session : Sessions, key : Keys,
              sequence : {0, 1}, outcome : Outcomes]

TypeOK ==
  /\ pc \in [Requests -> Stages]
  /\ call \in [Requests -> Calls \cup {None}]
  /\ worker \in [Requests -> Workers \cup {None}]
  /\ loop \in [Workers -> Requests \cup {None}]
  /\ outcome \in [Requests -> Outcomes \cup {None}]
  /\ wire \in [Requests -> WireStates]
  /\ events \subseteq EventType
  /\ ended \subseteq Sessions
  /\ suspended \subseteq Agents
  /\ allowed \in [Agents -> SUBSET Operations]
  /\ late \in [ended : SUBSET Requests, suspended : SUBSET Requests]
  /\ faults \in 0..MaxFaults
  /\ changes \in 0..MaxChanges

Init ==
  /\ pc = [r \in Requests |-> "idle"]
  /\ call = [r \in Requests |-> None]
  /\ worker = [r \in Requests |-> None]
  /\ loop = [w \in Workers |-> None]
  /\ outcome = [r \in Requests |-> None]
  /\ wire = [r \in Requests |-> "none"]
  /\ events = {}
  /\ ended = {}
  /\ suspended = {}
  /\ allowed \in [Agents -> SUBSET Operations]
  /\ late = [ended |-> {}, suspended |-> {}]
  /\ faults = 0
  /\ changes = 0

-----------------------------------------------------------------------------
(* The request coroutine *)

\* A request reaches a worker; it waits there for the event loop.
Arrive(r) ==
  /\ pc[r] = "idle"
  /\ \E c \in Calls, w \in Workers :
       /\ call' = [call EXCEPT ![r] = c]
       /\ worker' = [worker EXCEPT ![r] = w]
  /\ pc' = [pc EXCEPT ![r] = "arrived"]
  /\ UNCHANGED <<loop, outcome, wire, events, control, late, faults>>

\* The coroutine moves to another stage and keeps the loop, or gives it up.
Continue(r, stage) ==
  /\ pc' = [pc EXCEPT ![r] = stage]
  /\ loop' = [loop EXCEPT ![worker[r]] = r]
Yield(r, stage) ==
  /\ pc' = [pc EXCEPT ![r] = stage]
  /\ loop' = [loop EXCEPT ![worker[r]] = None]

\* AccessTokenService.decode and require_scopes; resolve_active_agent.
Authentic(c) == c.credential
ActiveAgent(c) == c.agent \notin suspended

\* Mutant: a refused request returns without giving up the loop.
RefuseOnLoop(r) ==
  /\ pc[r] = "arrived"
  /\ loop[worker[r]] = None
  /\ Continue(r, IF Authentic(call[r]) /\ ActiveAgent(call[r])
                   THEN "validate" ELSE "refused")
  /\ UNCHANGED <<call, worker, outcome, wire, events, control, late, faults>>

\* The loop runs the coroutine: access token, scope and agent status.
Authenticate(r) ==
  /\ pc[r] = "arrived"
  /\ loop[worker[r]] = None
  /\ IF Authentic(call[r]) /\ ActiveAgent(call[r])
       THEN Continue(r, "validate")
       ELSE Yield(r, "refused")
  /\ UNCHANGED <<call, worker, outcome, wire, events, control, late, faults>>

\* Mutant: the token's claims are trusted, the session row is not consulted.
ClaimsValid(c) == SessionAgent[c.session] = c.agent /\ ActiveAgent(c)

\* TrustedSessionService.validate: binding, session row, agent row.
SessionValid(c) ==
  /\ SessionAgent[c.session] = c.agent
  /\ c.session \notin ended
  /\ ActiveAgent(c)

Validate(r) ==
  /\ pc[r] = "validate"
  /\ IF SessionValid(call[r]) THEN Continue(r, "dedupe") ELSE Yield(r, "refused")
  /\ UNCHANGED <<call, worker, outcome, wire, events, control, late, faults>>

\* Mutants: only completed, only executed calls use up their key.
HasCompletedKey(c) == \E e \in events : e.agent = c.agent /\ e.key = c.key /\ e.sequence = 1
HasExecutedKey(c) == \E e \in events : e.agent = c.agent /\ e.key = c.key /\ e.outcome = Executed

\* AuditService.has_idempotency_key: any event of the agent with the key.
HasIdempotencyKey(c) == \E e \in events : e.agent = c.agent /\ e.key = c.key

Dedupe(r) ==
  /\ pc[r] = "dedupe"
  /\ IF HasIdempotencyKey(call[r])
       THEN /\ outcome' = [outcome EXCEPT ![r] = Duplicate]
            /\ Continue(r, "record0")
       ELSE /\ outcome' = outcome
            /\ Continue(r, "evaluate")
  /\ UNCHANGED <<call, worker, wire, events, control, late, faults>>

\* Mutant: a denial is reported as an error.
EvaluateAsError(r) ==
  /\ pc[r] = "evaluate"
  /\ outcome' = [outcome EXCEPT ![r] =
                   IF call[r].operation \in allowed[call[r].agent]
                     THEN Allowed ELSE Outcome("error", "not_forwarded", "POLICY_DENIED")]
  /\ Continue(r, "record0")
  /\ UNCHANGED <<call, worker, wire, events, control, late, faults>>

\* PolicyEvaluator.evaluate, by what the active manifest permits.
Evaluate(r) ==
  /\ pc[r] = "evaluate"
  /\ outcome' = [outcome EXCEPT ![r] =
                   IF call[r].operation \in allowed[call[r].agent]
                     THEN Allowed ELSE Denied]
  /\ Continue(r, "record0")
  /\ UNCHANGED <<call, worker, wire, events, control, late, faults>>

\* Mutant: every event of a request is numbered 0.
UnnumberedEvent(r, sequence) ==
  [request |-> r, agent |-> call[r].agent, session |-> call[r].session,
   key |-> call[r].key, sequence |-> 0, outcome |-> outcome[r]]

\* AuditService.record with the outcome computed so far.
Event(r, sequence) ==
  [request |-> r, agent |-> call[r].agent, session |-> call[r].session,
   key |-> call[r].key, sequence |-> sequence, outcome |-> outcome[r]]
Recordable(r) == call[r].trace = "fits"

\* Mutant: an allowed call is audited only once it has completed.
RecordBlockOnly(r) ==
  /\ pc[r] = "record0"
  /\ Recordable(r)
  /\ IF outcome[r].decision = "block"
       THEN events' = events \cup {Event(r, 0)} /\ Yield(r, "answered")
       ELSE events' = events /\ Continue(r, "dispatch")
  /\ UNCHANGED <<call, worker, outcome, wire, control, late, faults>>

\* The first event commits; a block is answered, an allow goes to the adapter.
Record0(r) ==
  /\ pc[r] = "record0"
  /\ Recordable(r)
  /\ events' = events \cup {Event(r, 0)}
  /\ IF outcome[r].decision = "block"
       THEN /\ Yield(r, "answered")
            /\ late' = late
       ELSE /\ Continue(r, "dispatch")
            /\ late' = [ended |-> late.ended \cup {q \in {r} : call[q].session \in ended},
                        suspended |-> late.suspended
                                        \cup {q \in {r} : call[q].agent \in suspended}]
  /\ UNCHANGED <<call, worker, outcome, wire, control, faults>>

\* CRMToolAdapter.execute up to its first await: the request goes out and the
\* loop is free, or a check fails before anything is sent.
Dispatch(r) ==
  /\ pc[r] = "dispatch"
  /\ \/ /\ call[r].form = "sends"
        /\ wire' = [wire EXCEPT ![r] = "sent"]
        /\ Yield(r, "awaiting")
        /\ UNCHANGED outcome
     \/ /\ call[r].form = "refused"
        /\ outcome' = [outcome EXCEPT ![r] = Refusal]
        /\ Continue(r, "record1")
        /\ UNCHANGED wire
     \/ /\ call[r].form = "raises"
        /\ Yield(r, "failed")
        /\ UNCHANGED <<wire, outcome>>
  /\ UNCHANGED <<call, worker, events, control, late, faults>>

\* The await ends with a result and the coroutine takes the loop again.
ResumeWith(r, result) ==
  /\ pc[r] = "awaiting"
  /\ loop[worker[r]] = None
  /\ outcome' = [outcome EXCEPT ![r] = result]
  /\ Continue(r, "record1")
  /\ UNCHANGED <<call, worker, wire, events, control, late, faults>>

\* Mutant: the status code of the response is not looked at.
ResumeAnyStatus(r) == wire[r] \in {"applied", "rejected"} /\ ResumeWith(r, Executed)

\* A 2xx response with a readable body.
ResumeExecuted(r) == wire[r] = "applied" /\ ResumeWith(r, Executed)
\* A response with status >= 400, or any httpx error but a timeout: the
\* connection may break before, during or after the CRM's work.
ResumeRejected(r) == ResumeWith(r, ToolError)
\* No answer within upstream_timeout_seconds, whatever became of the request.
ResumeTimeout(r) == ResumeWith(r, TimedOut)
\* A response below 400 that is not JSON: the exception leaves the endpoint.
ResumeUnreadable(r) ==
  /\ pc[r] = "awaiting"
  /\ loop[worker[r]] = None
  /\ wire[r] \in {"applied", "rejected"}
  /\ Yield(r, "failed")
  /\ UNCHANGED <<call, worker, outcome, wire, events, control, late, faults>>

\* The completion event commits and the outcome is returned.
Record1(r) ==
  /\ pc[r] = "record1"
  /\ Recordable(r)
  /\ events' = events \cup {Event(r, 1)}
  /\ Yield(r, "answered")
  /\ UNCHANGED <<call, worker, outcome, wire, control, late, faults>>

\* Mutant: a failed insert is swallowed and the outcome returned.
RecordSwallowed(r) ==
  /\ pc[r] \in {"record0", "record1"}
  /\ ~Recordable(r)
  /\ Yield(r, "answered")
  /\ UNCHANGED <<call, worker, outcome, wire, events, control, late, faults>>

\* PostgreSQL refuses a trace_id longer than its column: nothing is stored.
RecordOverlong(r) ==
  /\ pc[r] \in {"record0", "record1"}
  /\ ~Recordable(r)
  /\ Yield(r, "failed")
  /\ UNCHANGED <<call, worker, outcome, wire, events, control, late, faults>>

-----------------------------------------------------------------------------
(* The CRM's end of the HTTP request, and failures *)

\* The CRM serves the request, refuses it, or it never gets there; the proxy
\* may have stopped waiting for it long ago.
CrmAnswers(r) ==
  /\ wire[r] = "sent"
  /\ \E s \in {"applied", "rejected", "dropped"} : wire' = [wire EXCEPT ![r] = s]
  /\ UNCHANGED <<coroutines, events, control, late, faults>>

\* A database call raises: the endpoint answers 500.  When it was the commit
\* of an audit event, the event may or may not have been stored.
DatabaseFails(r) ==
  /\ faults < MaxFaults
  /\ \/ pc[r] \in OnLoop \ {"dispatch"}
     \/ pc[r] = "arrived" /\ loop[worker[r]] = None
  /\ \/ events' = events
     \/ pc[r] = "record0" /\ Recordable(r) /\ events' = events \cup {Event(r, 0)}
     \/ pc[r] = "record1" /\ Recordable(r) /\ events' = events \cup {Event(r, 1)}
  /\ Yield(r, "failed")
  /\ faults' = faults + 1
  /\ UNCHANGED <<call, worker, outcome, wire, control, late>>

\* A worker process dies and starts again with an empty loop; the requests it
\* was serving are gone, what it had sent to the CRM is not.
Crash(w) ==
  /\ faults < MaxFaults
  /\ pc' = [r \in Requests |->
              IF worker[r] = w /\ pc[r] \notin Final THEN "lost" ELSE pc[r]]
  /\ loop' = [loop EXCEPT ![w] = None]
  /\ faults' = faults + 1
  /\ UNCHANGED <<call, worker, outcome, wire, events, control, late>>

-----------------------------------------------------------------------------
(* Control plane: other threads and processes change what is enforced *)

\* POST /v1/sessions/{id}/revoke commits, or the clock passes expires_at.
EndSession(s) ==
  /\ s \notin ended
  /\ ended' = ended \cup {s}
  /\ UNCHANGED <<coroutines, wire, events, suspended, allowed, changes, late, faults>>

\* An agent row is set to another status; with a new suspension the count of
\* calls authorized during it begins anew.
SetAgentStatus(a) ==
  /\ changes < MaxChanges
  /\ suspended' = IF a \in suspended THEN suspended \ {a} ELSE suspended \cup {a}
  /\ late' = [late EXCEPT !.suspended = {r \in @ : call[r].agent # a}]
  /\ changes' = changes + 1
  /\ UNCHANGED <<coroutines, wire, events, ended, allowed, faults>>

\* Another manifest becomes the active one, or the window of the active ends.
ChangePolicy(a, ops) ==
  /\ changes < MaxChanges
  /\ ops # allowed[a]
  /\ allowed' = [allowed EXCEPT ![a] = ops]
  /\ changes' = changes + 1
  /\ UNCHANGED <<coroutines, wire, events, ended, suspended, late, faults>>

-----------------------------------------------------------------------------
\* Mutant: no timeout, and transport errors are not caught.
ResumeOnResponse(r) == ResumeExecuted(r) \/ ResumeUnreadable(r)

Resume(r) == \/ ResumeExecuted(r) \/ ResumeRejected(r)
             \/ ResumeTimeout(r)  \/ ResumeUnreadable(r)

Step(r) == \/ Authenticate(r) \/ Validate(r) \/ Dedupe(r) \/ Evaluate(r)
           \/ Record0(r) \/ Dispatch(r) \/ Resume(r) \/ Record1(r)
           \/ RecordOverlong(r)

Control == \/ \E s \in Sessions : EndSession(s)
           \/ \E a \in Agents : SetAgentStatus(a)
           \/ \E a \in Agents, ops \in SUBSET Operations : ChangePolicy(a, ops)

Next == \/ \E r \in Requests :
             Arrive(r) \/ Step(r) \/ CrmAnswers(r) \/ DatabaseFails(r)
        \/ \E w \in Workers : Crash(w)
        \/ Control

Spec == Init /\ [][Next]_vars

\* asyncio runs every ready coroutine in turn, a database call returns or
\* raises, and httpx ends every await by its timeout at the latest.
FairSpec == Spec /\ \A r \in Requests : WF_vars(Step(r))

-----------------------------------------------------------------------------
(* Properties *)

AgentKey(r) == <<call[r].agent, call[r].key>>
Authorized(e) == e.outcome = Allowed

\* ADR 0003, audit before forwarding (tool_calls.py:111 before :129): whatever
\* crashes or fails, a request the CRM can see has its authorization stored.
AuthorizedBeforeForward ==
  \A r \in Requests : wire[r] # "none" =>
    \E e \in events : e.request = r /\ e.sequence = 0 /\ Authorized(e)

\* The events of the log never claim more than happened at the CRM:
\* "not_forwarded" was never sent, "executed" was carried out, an adapter
\* refusal never left the proxy (tool_calls.py:65, 142, 183).
AuditTellsTruth ==
  \A e \in events :
    /\ e.outcome.status = "not_forwarded" => wire[e.request] = "none"
    /\ e.outcome.status = "executed" => wire[e.request] = "applied"
    /\ e.outcome.reason = "ADAPTER_REFUSED" => wire[e.request] = "none"

\* The log of one request is one decision, followed by one completion only if
\* the decision was to authorize (models.py:196 and the two record calls).
EventsWellFormed ==
  /\ \A e, f \in events :
       e.request = f.request /\ e.sequence = f.sequence => e = f
  /\ \A e \in events :
       /\ e.sequence = 0 => e.outcome \in Verdicts
       /\ e.sequence = 1 =>
            /\ e.outcome \in Completions
            /\ \E f \in events : f.request = e.request /\ f.sequence = 0 /\ Authorized(f)

\* With one worker an idempotency key is forwarded at most once, through
\* timeouts, crashes, retries and database errors: "reuse is rejected before
\* forwarding" (tool_calls.py:49; docs/threat-model.md).
AtMostOncePerKey ==
  \A q, r \in Requests :
    wire[q] # "none" /\ wire[r] # "none" /\ AgentKey(q) = AgentKey(r) => q = r

\* Revocation and suspension take effect at once but for the request on the
\* loop: a worker authorizes at most one call of a session after the session has
\* ended, and at most one of an agent in each suspension of the agent, since
\* nothing runs between validate and the first event (tool_routes.py:89).
RevocationWindow ==
  /\ \A q, r \in late.ended :
       worker[q] = worker[r] /\ call[q].session = call[r].session => q = r
  /\ \A q, r \in late.suspended :
       worker[q] = worker[r] /\ call[q].agent = call[r].agent => q = r

\* What the client is told is what the log says: an answered request has an
\* event with the outcome returned, and no later one contradicts it.
AnswerIsAudited ==
  \A r \in Requests : pc[r] = "answered" =>
    \E e \in events : /\ e.request = r /\ e.outcome = outcome[r]
                      /\ \A f \in events : f.request = r => f.sequence <= e.sequence

\* docs/implementation-phases.md, Phase 5: every decision is queryable.  With
\* no fault, a decision the proxy reached is in the log when the request ends.
EveryDecisionQueryable ==
  \A r \in Requests : pc[r] \in Final /\ outcome[r] # None =>
    \E e \in events : e.request = r

\* Every request ends: answered, refused, failed, or lost in a crash.
EveryCallEnds == \A r \in Requests : pc[r] = "arrived" ~> pc[r] \in Final

\* No request keeps the event loop: whoever holds it lets go.
LoopReleased ==
  \A w \in Workers, r \in Requests : loop[w] = r ~> loop[w] # r
=============================================================================
