------------------------------ MODULE Admission ------------------------------
(***************************************************************************)
(* How a tool call comes before the policy: the settings the proxy starts  *)
(* with (src/services/common/settings.py), access tokens and the agent     *)
(* registry (security/auth.py), sessions made by a host and presented by   *)
(* an agent (api/security_routes.py, api/tool_routes.py), and then         *)
(* PolicyEvaluator.                                                        *)
(*                                                                         *)
(* One action per transaction: the agent is resolved in one, its session   *)
(* validated in the next.  What happens between the statements of one is   *)
(* Sessions.  A request that is refused before validation is no step, for  *)
(* it changes nothing.  An access token is a record of what it decodes to  *)
(* and of who signed it; the expiry of access tokens is left out.          *)
(***************************************************************************)
EXTENDS PolicyEvaluator

CONSTANTS AgentIds, Customers, Users, SessionIds,
          SubjectOf,       \* agents.oidc_subject, unique
          AccessTokens,    \* the tokens in circulation
          Configurations,  \* the environments the proxy is started in
          MaxEvents        \* bound on what others change before the call

ASSUME RegistryAssumption ==
  /\ MaxEvents \in Nat
  /\ \A a, b \in AgentIds : SubjectOf[a] = SubjectOf[b] => a = b

VARIABLES settings,  \* the validated settings
          status,    \* agents: "active" or "suspended"
          row,       \* agent_sessions: a row, or None
          claims,    \* what the token issued for a session says, or None
          caller,    \* the tool call being admitted: its tokens and its agent
          events

gate == <<settings, status, row, claims, caller, events>>

Uses == {"agent", "host", "admin", "auditor"}

-----------------------------------------------------------------------------
(* Settings and access tokens *)

\* Mutant: development authentication is not looked at.
StartableAnyAuth(c) == c.env = "production" => c.https /\ c.jwks /\ c.ownSecrets

\* The settings' validator: what production must not start with.
Startable(c) ==
  c.env = "production" => ~c.devAuth /\ c.https /\ c.jwks /\ c.ownSecrets

\* AccessTokenService: one signer or the other; without a key for it nothing decodes.
HasKeyOf(signer) ==
  \/ settings.devAuth /\ signer = "development"
  \/ ~settings.devAuth /\ settings.jwks /\ signer = "provider"

\* decode: signed with that key, and of a known token use.
Decodes(t) == HasKeyOf(t.signer) /\ t.use \in Uses

\* What the endpoints of sessions ask of a token, after decoding it.
MayManage(t, scope) == Decodes(t) /\ t.use \in {"host", "admin"} /\ scope \in t.scopes

-----------------------------------------------------------------------------
(* Sessions, and what administrators do *)

CreateSession(t, s, a, c, u) ==
  /\ row[s] = None
  /\ MayManage(t, "session:create")
  /\ status[a] = "active"
  /\ row' = [row EXCEPT ![s] = [agent |-> a, customer |-> c, user |-> u,
                                state |-> "active", by |-> t]]
  /\ claims' = [claims EXCEPT ![s] = [agent |-> a, customer |-> c, user |-> u]]
  /\ UNCHANGED <<settings, status, caller, events>>

RevokeSession(t, s) ==
  /\ row[s] # None
  /\ MayManage(t, "session:revoke")
  /\ row' = [row EXCEPT ![s].state = "revoked"]
  /\ UNCHANGED <<settings, status, claims, caller, events>>

\* By SQL: an agent is suspended or reinstated, a session given to another
\* customer.  The session's token still says what it said.
Administer ==
  /\ events < MaxEvents /\ events' = events + 1
  /\ \/ /\ \E a \in AgentIds :
             status' = [status EXCEPT ![a] = IF @ = "active" THEN "suspended" ELSE "active"]
        /\ UNCHANGED row
     \/ /\ \E s \in SessionIds, c \in Customers :
             /\ row[s] # None /\ row[s].customer # c
             /\ row' = [row EXCEPT ![s].customer = c]
        /\ UNCHANGED status
  /\ UNCHANGED <<settings, claims, caller>>

-----------------------------------------------------------------------------
(* The tool call *)

\* The headers: an access token with tool:invoke, and a session's token.
Present(t, s) ==
  /\ caller = None
  /\ claims[s] # None
  /\ Decodes(t) /\ "tool:invoke" \in t.scopes
  /\ caller' = [token |-> t, session |-> s, agent |-> None]
  /\ UNCHANGED <<settings, status, row, claims, events>>

\* resolve_active_agent: an agent's token, of a registered and active agent.
ResolveActiveAgent ==
  /\ caller # None /\ caller.agent = None
  /\ LET found == {a \in AgentIds : SubjectOf[a] = caller.token.subject
                                    /\ status[a] = "active"}
     IN IF caller.token.use = "agent" /\ found # {}
          THEN \E a \in found : caller' = [caller EXCEPT !.agent = a]
          ELSE caller' = None
  /\ UNCHANGED <<settings, status, row, claims, events>>

\* Mutant: the session is not compared with the authenticated agent.
SessionHolds(s, agent) ==
  LET r == row[s] IN
    /\ r.state = "active"
    /\ r.agent = claims[s].agent /\ r.user = claims[s].user /\ r.customer = claims[s].customer
    /\ status[r.agent] = "active"

\* validate: the token names this agent, and the row says what the token says.
SessionValid(s, agent) ==
  LET r == row[s] IN
    /\ claims[s].agent = agent
    /\ r.state = "active"
    /\ r.agent = claims[s].agent /\ r.user = claims[s].user /\ r.customer = claims[s].customer
    /\ status[r.agent] = "active"

\* The call goes to the evaluator with the claims of the token, or is refused.
Admit(r) ==
  /\ caller # None /\ caller.agent # None
  /\ SessionValid(caller.session, caller.agent)
  /\ r.agent = caller.agent
  /\ r.session["customer_id"] = claims[caller.session].customer
  /\ r.session["user_id"] = claims[caller.session].user
  /\ Evaluate(r)
  /\ UNCHANGED gate
Refuse ==
  /\ caller # None /\ caller.agent # None
  /\ ~SessionValid(caller.session, caller.agent)
  /\ caller' = None
  /\ UNCHANGED <<settings, status, row, claims, events>>

-----------------------------------------------------------------------------
AInit == /\ Init
         /\ settings \in {c \in Configurations : Startable(c)}
         /\ status = [a \in AgentIds |-> "active"]
         /\ row = [s \in SessionIds |-> None]
         /\ claims = [s \in SessionIds |-> None]
         /\ caller = None
         /\ events = 0

Approach ==
  \/ \E t \in AccessTokens, s \in SessionIds :
       \/ \E a \in AgentIds, c \in Customers, u \in Users : CreateSession(t, s, a, c, u)
       \/ RevokeSession(t, s)
       \/ Present(t, s)
  \/ Administer \/ ResolveActiveAgent \/ Refuse

\* Bound: what others do once the call is admitted is followed in ToolCalls.
ANext == \/ stage = "idle" /\ Approach /\ UNCHANGED vars
         \/ \E r \in Requests : Admit(r)
         \/ Go /\ UNCHANGED gate

ASpec == AInit /\ [][ANext]_<<vars, gate>>

-----------------------------------------------------------------------------
(* Properties *)

\* Behind every call that the policy evaluates there is a trusted principal: a
\* host or administrator allowed to create sessions made this session for the
\* very agent whose access token came with the call, and the customer and user
\* that the policy compares with are those the session has.  With the data scope
\* of the rule, an allowed call touches that customer only (tool_routes.py:91,
\* sessions.py:202 and :221, evaluator.py:118).
VouchedFor ==
  LET r == row[caller.session] IN
    /\ r.by.use \in {"host", "admin"} /\ "session:create" \in r.by.scopes
    /\ caller.token.use = "agent" /\ SubjectOf[r.agent] = caller.token.subject
    /\ r.agent = request.agent
    /\ r.user = request.session["user_id"]
HostNamedTheCustomer ==
  stage # "idle" =>
    /\ VouchedFor
    /\ reason = "ALLOWED" =>
         LET rule == read.document.tools[request.tool].rules[request.operation]
         IN rule.scope # None =>
              \A s \in rule.scope : s.claim = "customer_id" =>
                request.parameters[s.parameter] = row[caller.session].customer

\* In production nothing rests on a development credential: neither the token of
\* a call that is evaluated nor the one its session was made with
\* (settings.py:65 against auth.py:78).
ProviderSigned == caller.token.signer = "provider" /\ row[caller.session].by.signer = "provider"
ProductionTrustsProvider ==
  stage # "idle" /\ settings.env = "production" => ProviderSigned
=============================================================================
