----------------------------- MODULE MCAdmission -----------------------------
(* Tokens and environments for checking Admission, with the manifests, tools *)
(* and calls of MCPolicyEvaluator.                                           *)
EXTENDS Admission, MCPolicyEvaluator

MCCustomers == {Text("c1"), Text("c2")}
MCUsers == {Text("c2")}
MCSubjectOf == ("a" :> "oidc:a") @@ ("b" :> "oidc:b")

Token(signer, use, subject, scopes) ==
  [signer |-> signer, use |-> use, subject |-> subject, scopes |-> scopes]
\* The tokens of the provider: hosts with either scope, an administrator, an
\* auditor, the agents, an agent nobody registered; and those of a developer.
MCAccessTokens ==
  {Token("provider", "host", "crm-portal", {"session:create"}),
   Token("provider", "host", "crm-portal", {"session:revoke"}),
   Token("provider", "admin", "operator", {"session:create", "session:revoke"}),
   Token("provider", "auditor", "auditor", {"audit:read"}),
   Token("provider", "agent", "oidc:a", {"tool:invoke"}),
   Token("provider", "agent", "oidc:b", {"tool:invoke", "session:create"}),
   Token("provider", "agent", "oidc:c", {"tool:invoke"}),
   Token("development", "host", "dev:host", {"session:create"}),
   Token("development", "agent", "oidc:a", {"tool:invoke"})}

Environment(env, dev, ready) ==
  [env |-> env, devAuth |-> dev, https |-> ready, jwks |-> ready, ownSecrets |-> ready]
MCConfigurations ==
  {Environment(env, dev, ready) :
     env \in {"local", "production"}, dev \in BOOLEAN, ready \in BOOLEAN}

\* Once the call is admitted nothing reads the gate any more: two states that
\* agree on what the properties ask of it go on alike.
AdmittedView ==
  IF stage = "idle" THEN <<vars, gate>>
  ELSE <<vars, VouchedFor, row[caller.session].customer,
         settings.env = "production" => ProviderSigned>>
=============================================================================
