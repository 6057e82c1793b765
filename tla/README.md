# A TLA+ model of the tool permission enforcer

The system stands between an AI agent and a tool. An agent sends
`POST /v1/tool-calls`; the *permission proxy* authenticates it, checks the
trusted session the host application created for it, decides the call by the
agent's active manifest, writes the decision to a hash-chained audit log, and
only then forwards it to the *sample CRM*. This directory holds TLA+ modules of
that system, TLC configurations that check them on small instances, and theorems
checked by TLAPS. Paths below are relative to `src/services/permission_proxy/`
unless they start with another directory of `src/`.

Run `tlc -config X.cfg M.tla` for the runs listed below and `tlapm M.tla` for
the modules whose name ends in `Proofs`.

## 1. Inventory

| Component | State | Operations | What is hard |
|---|---|---|---|
| Tool-call enforcement (`tool_calls.py`, `api/tool_routes.py`) | coroutine of each request, the worker's event loop | `execute`: duplicate check, evaluation, audit, forward, audit | several transactions without a common lock; a coroutine that blocks its loop; crashes, retries, timeouts |
| CRM adapter (`tools/crm.py`) | none | `execute`: checks, one HTTP request | the answer may be lost or late while the effect is not; exceptions that are not `ToolExecutionError` |
| Audit log (`audit/service.py`) | table `tool_call_audit_events`, a hash chain | `record`, `has_idempotency_key`, `verify_integrity` | order by wall clock and random id; concurrent recorders; tampering |
| Audit queries (`api/audit_routes.py`) | none; the client's offset | list, by request, integrity | paging by offset over a list that grows, and not only at its head |
| Policy evaluation (`policy/`) | none; reads the active manifest and the tool | `evaluate`, document validators, `validate_parameters` | two reads at two moments; absent parameters; free-form stored JSON |
| Manifest activation (`persistence/repositories.py`) | table `permission_manifests` | `activate` | a switch without a gap; row locks shared with audit inserts and session creations, deadlock |
| Trusted sessions (`security/sessions.py`) | table `agent_sessions`, signed tokens | create, validate, revoke | suspension or revocation in between; two clocks (row and JWT) |
| Access tokens and identity (`security/auth.py`) | none; reads `agents` | decode, scopes, `resolve_active_agent` | what was resolved is stale when the session is validated; keys are fetched on the event loop |
| Settings (`src/services/common/settings.py`) | read once | validation at start-up | which tokens decode depends on four of them together |
| Transactions (`src/services/common/database.py`) | connection pool | `Database.session`: commit or roll back | a commit whose result is unknown |
| Seed (`persistence/seed.py`) | writes agent, tool, manifest, customers | `seed_phase_1`, before every start | interruption; data that changed since |
| Sample CRM (`src/services/sample_crm`) | table `crm_customers` | read, patch, delete | read-then-write under READ COMMITTED |
| Reference agent, logging, health, migrations, scripts | none that matters here | | |
| Deployment (Compose, Terraform) | one proxy worker, one task | start after the seed, stop, restart | |

How they interact. The endpoint calls, inside one coroutine, identity, sessions,
the duplicate check, the evaluator and the audit log, each in a transaction of
its own, then awaits the adapter, then the audit log again. Session endpoints,
the audit endpoints and the CRM run in thread pools and change the same tables
concurrently; administrators change agents, tools and manifests by SQL or by
`activate`. The services share nothing but PostgreSQL; Redis is deployed and not
used. The reference agent answers from its own tools and never calls the proxy.

What makes each component correct: a request the CRM sees was authorized and the
authorization is stored; the log tells the truth about the wire; a key is
forwarded once; revocation and suspension take effect at once; an untouched
chain verifies and a touched one does not, as far as an unkeyed hash can tell; a
call is allowed only if manifest and tool permit it and only on the session's
own data; a call is made for the customer a host named; an agent has one active
manifest, always; no session outlives its row or appears for a suspended agent;
a restart neither loses nor overwrites data.

## 2. Modules

**`ToolCalls`** is the core. One action per transaction or await of a request:
`Arrive`, `Authenticate` (token, scope, agent), `Validate` (session), `Dedupe`,
`Evaluate`, `Record0` (first audit event), `Dispatch` (the adapter up to its
await), `Resume...` (the four ways the await ends), `Record1`, and
`RecordOverlong`. `pc[r]` is the point the coroutine has reached, `loop[w]` the
request that holds the event loop of a worker: database calls are synchronous,
so a request keeps the loop from `Authenticate` to `Dispatch` and from `Resume`
to `Record1`. `wire[r]` is the HTTP request to the CRM, which lives on when the
proxy has stopped waiting. `events` are the rows of the audit table, without
chain or clock. `Crash` and `DatabaseFails` can strike anywhere; a failing
commit of an audit event may have stored it or not. `EndSession`,
`SetAgentStatus` and `ChangePolicy` are what other threads and administrators
do, between any two transactions; `late` remembers the calls authorized after
their session had ended and while their agent was suspended. `CrmAnswers` is
wider than the sample CRM's code: any answer, at any time, with or without the
effect. A call is a record of what the path tells apart: agent, session, key,
operation, whether its credential is good, what the adapter makes of it (`form`)
and whether its trace header fits the column. What happens inside an evaluation
or a validation belongs to the modules below.

**`CallLedger`** is the abstract promise: each request is decided once, each key
is authorized once, the tool acts only for authorized requests, and a completion
claims no more than happened. **`ToolCallsRefinement`** maps `ToolCalls` to it:
decision and completion are the first and second audit events, the effect is
what the CRM applied. `MCToolCalls` gives the calls for TLC.

**`AuditChain`** is `record` and `verify_integrity`, statement by statement:
`ReadLast` and `Insert` of a writer, the wall clock (`ClockMoves`), and direct
changes of the table. `Delete` removes a row; `Modify` edits any of its columns,
`timestamp` and `event_id`, by which the walk is ordered, included, and leaves its
hash, copies another row's, or computes it anew for what the row now says, as
anybody can: the hash has no key. `tampered` counts these changes, `change`
remembers the last one: the row before and after, whether another row followed it,
and whether the log was valid. The hash is the tuple of its inputs, so it is
injective. `Ties` and `StepsBack` say which clocks are allowed.

**`Sessions`** is `create`, `validate` and `revoke` by threads, one action per
SQL statement, with the row lock of `create` and a clock that counts ticks of a
fraction of a second: rows keep ticks, tokens whole seconds.

**`Manifests`** is `activate` by its three row locks, taken in the code's order,
among the two other transactions that lock the same rows: the insert of an audit
event, whose foreign keys take KEY SHARE on the agent and then on the cited
manifest (`migrations/versions/20260730_0001_initial_schema.py:265-274`), and the
creation of a session, which locks the agent. `locks` holds transaction, row and
mode, and `Conflict` is PostgreSQL's table for the three modes that occur. Audit
events are inserted one at a time, for the insert runs on the event loop of the
only worker. Status changes become visible at commit. The deadlock detector is
PostgreSQL's. The partial unique index is left out on purpose: the checks show
that the locks suffice. **`ManifestRegister`** is the abstract promise: a
register per agent, switched in one step, never emptied, never set back.

**`AuditQueries`** extends `AuditChain` by an auditor who pages through
`list_events`: `StartQuery`, and `ReadPage` for each request, with the log going
on in between (`Go`). `owed` remembers which events of the beginning no page has
shown yet. `MCAuditQueries` declares writers and bodies interchangeable.

**`PolicyEvaluator`** is `evaluate`, the validators of the manifest document and
`validate_parameters`: `Evaluate`, the call, and two actions, one per row read,
with a switch of manifest or an update of the tool in between. An evaluation may
end without a decision: `LookupRaises` says when a document makes the code look up
a rule or a claim that is not there. What the validators accept, `ValidDocument`,
is defined apart from that, and only the two together exclude it.
`MCPolicyEvaluator` has the manifests, tools and calls.

**`Admission`** extends `PolicyEvaluator` by what comes before it: the settings
the proxy may start with, the access tokens they let it decode, `CreateSession`
and `RevokeSession` by hosts and administrators, and a tool call in three steps,
`Present` (token and scope), `ResolveActiveAgent` (one transaction) and `Admit`
(the next: session token against session row, then `Evaluate` with the claims of
the token). Between them administrators suspend agents or give a session to
another customer. What happens between the statements of one of these
transactions is `Sessions`; what happens after the decision is `ToolCalls`.
`MCAdmission` has the tokens and environments, and a view that forgets the gate
once the call is through, when no action reads it any more.

**`CustomerSeed`** is the sample CRM's three endpoints (a SELECT, then a write
by primary key that others may have overtaken) and the seed, one transaction
that reads row by row, together with stops and restarts.

**`ToolCallsProofs`**, **`LedgerProofs`**, **`PolicyProofs`**,
**`AdmissionProofs`**, **`ManifestsProofs`**, **`AuditProofs`**,
**`SessionsProofs`**, **`CustomerSeedProofs`**: theorems, section 5.

Operators whose comment starts with "Mutant" are wrong versions of the operator
that follows them, the way a bug would make it wrong. Nothing refers to them;
substituted for it, they break the property they are meant for, which shows that
the property can fail.

## 3. Runs

| Run | Module, cfg | Shows |
|---|---|---|
| `toolcalls_retry` | `MCToolCalls`, `ToolCallsRetry.cfg` | `AtMostOncePerKey`, `RevocationWindow`, and that `ToolCalls` implements `CallLedger` |
| `toolcalls_paths` | `MCToolCalls`, `ToolCallsPaths.cfg` | the log precedes, matches and explains the wire; every request ends and lets go of the loop |
| `toolcalls_trace` | `MCToolCalls`, `ToolCallsTrace.cfg` | violated: a decision without an event |
| `audit_chain` | `AuditChain`, `AuditChain.cfg` | one writer, an advancing clock: no false alarm, and of one change that leaves `timestamp` and `event_id` the walk names the right row; one change of any columns is found if a row followed, and an edit that leaves the hash is found anyway |
| `audit_queries` | `MCAuditQueries`, `AuditQueries.cfg` | an auditor who pages to the end misses nothing that was there at the beginning |
| `audit_clock` | `AuditChain`, `AuditChainClock.cfg` | violated: a false alarm after the clock is set back |
| `sessions` | `Sessions`, `Sessions.cfg` | revocation, expiry, suspension, and that operations end |
| `sessions_revoke` | `Sessions`, `SessionsRevoke.cfg` | violated: two revocations, two times |
| `manifests` | `MCManifests`, `Manifests.cfg` | one active manifest, no gap; activation is an atomic switch; rolling out a draft costs no audit event; every wait ends |
| `admission` | `MCAdmission`, `Admission.cfg` | default deny, own data only, every evaluation decides; every evaluated call is vouched for by a host; production rests on the provider's tokens |
| `customers` | `CustomerSeed`, `CustomerSeed.cfg` | the seed is atomic and overwrites nothing; a field changes only to what a PATCH sent for it; what the answer 200 promises of each field sent |
| `customers_reseed` | `CustomerSeed`, `CustomerSeedAgain.cfg` | violated: the seed fails after a renamed customer |

Bounds, and why they are enough. *Tool calls*: one worker, as deployed
(`--workers 1`, `desired_count = 1`, `maximum_percent = 100`). Three requests in
`toolcalls_retry` give an original, a retry and a third that differs in key,
which is what deduplication and the revocation window compare; requests are
interchangeable, so they are a symmetry set there (no liveness is checked in
that run). Two requests in `toolcalls_paths` give every pair of paths, one
holding the loop while the other waits, without symmetry because it checks
liveness. One fault puts a crash or an ambiguous commit at every point. *Chain*:
three rows and one change, of the first, the middle or the last of them, before
or after the rows that follow it, to any values of the columns within the
bounds. `audit_chain` has three moments for three rows with distinct times; it
excludes ties, steps back and a second writer, so the hazard of the clock is
shown by `audit_clock` alone. `ChangeIsFound` and `EditIsNeverValid` do not
depend on the order of recording; TLC checks them on these logs, and the
theorems `ChangeFound` and `EditIsFound` are for every clock and any number of
writers. *Queries*: three rows, two writers, a free clock, nobody tampers, and
pages of one or two, so that a page boundary falls before, between and after
rows that move; two bodies are two values of a filter. *Sessions*: two threads,
so that each operation meets each other one; times run in halves of a second
past the shortest lifetime. *Manifests*: three drafts of one agent and one of
another, three transactions at a time and four in all: a deadlock between
activations, one between an activation and an audit event, a double activation,
an event that cites a superseded manifest and a late repetition all occur. Calls
being finitely many, nobody can be overtaken for ever on a row lock, which
PostgreSQL's queue of waiters rules out too. *Admission*: one call at a time,
for evaluations share nothing; two sessions, two agents, one unregistered
subject, each kind of token by either signer; each manifest varies one thing the
evaluator looks at, one of them a scope on a claim that no session has. What
others do after the call is admitted is bounded to none here and followed in
`ToolCalls`. *Customers*: two customers, so that the seed is between them when
something happens, and two requests, so that two writes of one row overlap.

Deadlock is not checked: with bounded calls every model ends when its calls have
ended. That nobody waits for ever is stated by the liveness properties instead.

Fairness. `ToolCalls`: weak fairness of each request's steps. asyncio runs every
ready coroutine, a database call returns or raises, and httpx ends every await
at `upstream_timeout_seconds`, so a request waiting for the loop gets it once
requests before it are done (`LoopReleased`, checked with it, is what makes weak
fairness enough: requests are finitely many). No fairness for the CRM, for
clients, or for faults. `Sessions`: a pool thread is scheduled and its statement
returns; a lock is granted when free. `Manifests`: the same for every statement
of the three transactions, and the detector looks at every wait. The other
models check safety only.

## 4. What the checks found

Four statements of the documentation do not hold of the code, each with a run, and
a fifth is too strong.

* `docs/implementation-phases.md:13`, "Every decision is queryable": the
  `Traceparent` header may have 256 characters, its column 64. A call with a
  longer one is decided, its event refused, and the client gets a 500
  (`EveryDecisionQueryable`). Nothing is forwarded: `AuthorizedBeforeForward`
  holds in the same model.
* `docs/runbooks/aws-ecs-demo-deployment.md:122`, integrity "returns
  `valid: true`" for a log nobody touched: the chain follows the wall clock, and
  a clock set back by a microsecond between two events breaks it for good
  (`UntamperedIsValid` in `audit_clock`).
* `docs/authentication-and-sessions.md:75`, "Revocation is idempotent": two
  concurrent revocations leave the later `revoked_at`
  (`RevocationIsIdempotent`). The session stays revoked.
* `docs/data-model.md:80`, "The seed operation is idempotent": the CRM lets a
  client change the name that the seed compares, and the services wait for the
  seed (`SeedIsIdempotent`).

The fifth is `docs/implementation-phases.md:13` again, "deliberate modification is
detected". The hash of an audit row is a SHA-256 without a key
(`audit/service.py:92`), and only the next row's link holds it. Who edits the newest
row and computes its hash anew, or deletes it, leaves a log that verifies. TLC shows
it in three steps (read the last event, insert, edit) when `EditIsNeverValid` is
stated without the condition that the edit leaves the hash; the properties of
`audit_chain` say how far detection goes.

What does hold of tampering: in a log that is valid, one change of any column of
a row that another row follows, or its deletion, is found for good
(`ChangeIsFound`), and so is an edit of the newest row that leaves its hash
(`EditIsNeverValid`, which says nothing of a hash computed anew). Which row is
named depends on the edit. `TamperingIsFound` says it for changes that leave
`timestamp` and `event_id`: the edited row, or the next one when the row was
deleted, or its link left and its hash computed anew. An edit of the order columns moves the row,
and the walk may stop at another one; all that is shown of it is that the walk
stops. A change of two rows or more, or of the whole tail with all hashes
computed anew, is not covered, and a deletion of the newest rows leaves no
trace.

A PATCH of a customer that answers 200 need not have stored what was sent. The
ORM leaves out of the UPDATE the fields whose value is the one the SELECT returned.
If another request has changed such a field in between, or deleted the row and
nothing else was to be written, the table does not hold the value, and the client is
told it does (the response shows the object in memory). TLC finds both when
`SuccessMeansStored` is stated without its second disjunct: two PATCHes or a PATCH
and a DELETE that have both read the row, eleven steps from the start. No statement
of the repository promises otherwise, so there is no run that expects a violation;
the property names this case and excludes every other, among them success of a
PATCH that had something to write to a deleted row.

The evaluator reads manifest and tool at two moments. `AllowedIffPermitted` is
about the rows as they were read: a manifest that is superseded between the reads
still decides the call, which the code intends and the property does not question.

Not stated anywhere either, but worth knowing: a call authorized just before its
session was revoked is still forwarded (`RevocationWindow` bounds it to one per
worker, and for a suspension to one of the agent), a call that fails on
unreadable JSON after its effect stays "authorized" in the log, and the seed's
summary names its own manifest as the active one also when another has
superseded it. Activating the active manifest again (or one that was active), a
repetition that changes nothing, can deadlock with the insert of an audit event
that cites it: `activate` locks the manifest first and the agent second, the
foreign keys the other way round. If PostgreSQL picks the insert, that tool call
answers 500 and, when it was the completion, stays "authorized".
`RolloutSparesAudit` shows that no other activation can do this. An auditor who
pages by offset may see an event twice, but `PagingMissesNothing` also when the
clock is set back. In OIDC mode an unreachable key provider answers 500 and
holds the event loop while it is asked (`security/auth.py:92`). The Terraform
deployment runs as `staging` with development authentication on
(`src/infra/terraform/main.tf:427`, `:434`), which the validator allows and
`docs/authentication-and-sessions.md:26` forbids for credentials;
`ProductionTrustsProvider` is about `production` alone.

## 5. Proofs

TLC shows the properties for the instances above; TLAPS shows those listed here
for every value of the constants, under the `ASSUME`s of the modules.

**`ToolCallsProofs`** proves, for any number of workers (but for the last),
requests, agents, sessions, faults and changes: `TypeCorrect`,
`AuditPrecedesForwarding`, `AuditIsTrue`, `LogIsWellFormed`,
`AnswersAreAudited`, `RevocationIsPrompt`, and, assuming `SingleWorker`,
`ForwardedAtMostOnce`. None of these invariants is inductive: that a completion
is true, for instance, depends on what the coroutine computed before it wrote
it. `IInv` adds

* `Carried`, `LoopHeld`: who a request is, and that in a stage on the loop it
  holds the loop of its worker;
* `OutcomeOfStage`: what has been computed at each stage, and what it says of
  the wire (`Executed` only after the CRM applied the request);
* `WireAfterDispatch`, `EventsOwned`, `AuthorizationStored`: before which stage
  the wire and the log of a request are empty, and from which stage the log has
  its authorization;
* `LateOnce`, for the revocation window: once a call has outlived its session, or
  was authorized while its agent is suspended, no other call of that session or
  agent is between validation and decision on the worker. This rests on
  `LoopHeld`: they would both hold the loop.

For `ForwardedAtMostOnce` two more invariants are added: `KeyFresh` (a request
between the duplicate check and its record has a key nobody has recorded; it
rests on the loop of the only worker) and `AuthorizedOnce`. Each conjunct has a
lemma with one step per action; theorems combine them by PTL.

**`PolicyProofs`** proves, for any manifests, tools, calls, clock and changes:
`EvaluatorTypeCorrect`, `DefaultDeny` (a call is allowed exactly when the rows
read permit it), `ScopeIsEnforced` and `EveryEvaluationDecides`. Its invariant
`Established` remembers across the two reads that the manifest passed its checks;
`CoveredIsBoth` and `CallAllowed` are the lemmas about the operators. The
assumption that matters is that a session's claims are strings, as
`SessionTokenCodec.decode` ensures.

**`AdmissionProofs`** proves, for any registry, tokens, sessions, users and
settings, that every behaviour of `Admission` is one of `PolicyEvaluator`
(`AdmissionIsEvaluation`), so that the theorems above hold of calls that come
through the gate; `CallsAreVouchedFor`, which combines that with
`ScopeIsEnforced`; and `NothingDevelopmental`. Its invariant `GInv` says that every
session row was made by a principal who may make sessions (`RowsMade`), what has
been established of the caller (`CallerKnown`), and that a call under evaluation
has passed validation (`Validated`).

**`LedgerProofs`** proves, assuming `SingleWorker`, that `ToolCalls` implements
`CallLedger` (`EnforcementKeepsLedger`): each action maps to a step of the ledger
or to a stutter. It rests on the invariants above, `AuthorizedOnce` among them,
and on lemmas that say how the mapped variables change when an event is stored
or the wire moves. `ASSUME LedgerAssumption`: `None` is not a decision and not a
completion.

**`ManifestsProofs`** proves, for any number of transactions, agents and
manifests, all the safety properties of `Manifests` and its refinement:
`ManifestsTyped`, `ActivationIsExclusive`, `PolicyNeverWithdrawn`,
`RolloutIsHarmless`, `ActivationIsAtomic`. The argument is that of the row locks.
`Compatible` says that two transactions never hold conflicting locks of one row,
`AgentLocked` that an activation past `LockAgent` holds its agent's row FOR
UPDATE; so it is alone on that agent (`AgentExclusive`), and what it has found in
the table is still true when it writes (`StillTrue`). From this `AtMostOne` is
preserved by a commit, and the commit is the register's switch (`SwitchOf`).
`HeldSoFar` says what a transaction holds while it waits for its second row, and
`CitedWasActive` that an event cites a manifest that has left the draft stage:
together they exclude the deadlock that `RolloutSparesAudit` is about.

**`AuditProofs`**. Two theorems hold whatever the clock does and however many
threads record. `EditIsFound`: an edit that leaves the hash column leaves a hash
behind that is not the row's, in every later state (`Hashes`, `HashesDiffer`).
`ChangeFound`: in a valid log the row after the changed one links to its hash
(`LinksBack`), and afterwards no row that the walk accepts has that hash: it
would have to be the very row that is gone, whose id is never drawn again
(`LinkLost`). That an untouched log verifies (`NoFalseAlarm`) and that a change
in place is named (`TamperingFound`) assumes `Orderly`: one recording thread,
distinct timestamps, a clock that is not set back. The code enforces none of the
three; the deployment gives the first (audit events are recorded on the event
loop of its only worker) and usually the other two, and the run `audit_clock`
shows that the theorem fails without the last. What the walk finds at a row
depends on the rows before it alone (`LinkedByPast`), and under `Orderly` a new
row comes after all others (`Insertion`). The invariant adds that timestamps
tell the rows apart and none lies ahead of the clock (`Chronological`, as long
as nobody moved a row: `Ordered`), and that what the writer has read is still
the end of the log (`AtTheEnd`). That each row but the newest has a next one
(`Successor`) follows from `Ranks`. `PagingIsComplete` needs no such assumption:
an event still owed has a rank of at least the offset (`Owing`), insertion only
moves ranks up (`RanksGrow`), and a page after which rows are left is full
(`FullPage`). The last is a counting argument: ranks are distinct and below the
number of rows, so they leave no gap (`Ranks`).

**`SessionsProofs`** proves, for any number of threads, agents and sessions, any
resolution of the clock and any bounds of the TTL: `SessionsTyped`,
`RevocationIsFinal`, `TokenNeverOutlivesRow`, `SessionsOfActiveAgents`. The
invariant remembers what each thread works with at each of its statements
(`WorkOK`), that a row and its token appear together (`Issued`), that a create
past its check holds the row of an agent that is still active (`Held`), and that
a session that was revoked when its validation began is still revoked when its
row is read (`SeenRevoked`). `Floor` is the fact about whole seconds.

**`CustomerSeedProofs`** proves, for any number of customers, requests and runs
of the seed: `CustomersTyped`, `SeedIsAtomic`, `SeedSparesEdits`,
`EditsKeepToTheirFields`, `SuccessIsStored`, `OnlyTheSeedRestores`. The
invariant adds that what the seed has found absent is still absent when it
commits (`StillAbsent`), which holds because no CRM statement adds a row
(`WrittenRow`, `PatchAddsNone`), and that a request waiting for its write
carries the row it read (`RequestOK`). Only the flush of a PATCH can answer it
200 (`PatchAnswers`) and only that of one which sent a field can change it
(`PatchSendsIt`).

The assumptions on constants are that bounds are numbers, that `None` differs
from what it stands for the absence of, and, where a proof needs them, facts the
code ensures: they are named, stated where the constants are declared, and
evaluated in every run. Each inductive invariant was first checked as an
invariant of the component's run.

Only model-checked: liveness (`EveryCallEnds`, `LoopReleased`, `OperationsEnd`,
`TransactionsEnd`), which TLAPS does not do under fairness. Every invariant,
action property and refinement of a passing run is a theorem. The four violated
statements are counterexamples and have no proof.

## 6. Not modelled

* More than one worker in the runs: the deployment runs exactly one. The code
  itself would not keep deduplication or a valid chain with two, since nothing in
  the database ties the duplicate check to the insert, nor the last event to the
  next; "at least two ECS tasks", which `docs/production-readiness-checklist.md:34`
  plans, would need that first. The theorems other than `ForwardedAtMostOnce`
  hold for any number of workers.
* The events of one request, `GET /v1/identity/me` and `POST /v1/sessions/validate`
  as endpoints: each reads what is modelled elsewhere and changes nothing.
* The expiry of access tokens, and the tool that issues development tokens.
* JWT verification, JSON canonicalisation and SHA-256:
  libraries, modelled by what they guarantee.
* The connection pool and its exhaustion (an operation holds one connection and
  asks for no second one), and the database itself beyond row locks,
  READ COMMITTED and its deadlock detector.
* Settings other than those that decide which tokens decode, logging, health,
  scripts, the reference agent and infrastructure: no state that the properties
  concern. Migrations: the models start from the schema at head; a downgrade
  and upgrade of revision 0003 would invalidate the chain, for the keys it drops
  are hashed.
* Conflicts of the seed over agent, tool or manifest: no code changes what it
  compares of them.

## 7. Plan

Order of work, the most important behaviour first. Done: 1 to 9.

1. `ToolCalls`, `CallLedger`, `ToolCallsRefinement`, with their runs.
2. `ToolCallsProofs`: types, audit, deduplication, revocation.
3. `AuditChain`, over clocks and tampering.
4. `Sessions`: what concurrent transactions may do.
5. `PolicyEvaluator`, `PolicyProofs`; `CustomerSeed`.
6. `Manifests` with the locks of the transactions around `activate`, and
   `ManifestRegister`.
7. `AuditQueries`.
8. `Admission`, `AdmissionProofs`.
9. `LedgerProofs`, `ManifestsProofs`, `AuditProofs`, `SessionsProofs`,
   `CustomerSeedProofs`.
10. A composition of `ToolCalls` with the statements of `Sessions`: the window of
   `RevocationWindow` measured in statements instead of transactions.
