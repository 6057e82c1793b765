--------------------------- MODULE PolicyEvaluator ---------------------------
(***************************************************************************)
(* The policy decision: PolicyEvaluator.evaluate (policy/evaluator.py) and *)
(* the manifest language it interprets (policy/manifest.py).               *)
(*                                                                         *)
(* The evaluation reads two rows by two statements of one READ COMMITTED   *)
(* transaction, the agent's active manifest and then the tool, and an      *)
(* administrator may change either in between.  Deny messages are left     *)
(* out; a reason code is a string of the code.                             *)
(***************************************************************************)
EXTENDS Naturals

CONSTANTS Bounded,      \* strings within the maxLength a schema may set
          ManifestRows, \* rows of permission_manifests in play
          ToolRows,     \* rows of tool_definitions in play
          Requests,     \* the calls evaluated: agent, tool, operation, parameters, session
          Times,        \* readings of the clock
          MaxChanges,   \* bound on what administrators change
          None

\* A parameter value is [kind |-> "string", "object" or "other", ...].
Claims == {"customer_id", "user_id"}
Reasons == {"ALLOWED", "MANIFEST_NOT_FOUND", "MANIFEST_EXPIRED",
            "POLICY_INTEGRITY_VIOLATION", "POLICY_CONFIGURATION_INVALID",
            "TOOL_NOT_REGISTERED", "TOOL_NOT_ALLOWED", "OPERATION_NOT_ALLOWED",
            "INVALID_PARAMETERS", "DATA_SCOPE_VIOLATION"}

ASSUME BoundsAssumption == MaxChanges \in Nat /\ Times \subseteq Nat
ASSUME NoneAssumption ==
  None \notin ManifestRows /\ None \notin ToolRows /\ None \notin Reasons
\* TrustedSessionClaims: both claims are there, and are strings.
ASSUME SessionAssumption ==
  \A r \in Requests : \A c \in Claims : r.session[c].kind = "string"

VARIABLES manifest,  \* the active manifest row of the call's agent, or None
          tool,      \* the tool_definitions row it names, or None
          request,   \* the call being evaluated, None before it comes
          stage,     \* "idle", "manifest", "tool", "done", or "raised"
          read,      \* the manifest row the evaluation has read
          readTool,  \* the tool row it has read
          now,       \* the evaluation time, read once
          reason,    \* the reason code decided, or None
          changes

vars == <<manifest, tool, request, stage, read, readTool, now, reason, changes>>

-----------------------------------------------------------------------------
(* The manifest language *)

\* validate_parameters: required ones present, no unknown ones, types right.
TypeFits(constraint, value) ==
  CASE constraint = "string" -> value.kind = "string"
    [] constraint = "bounded" -> value.kind = "string" /\ value \in Bounded
    [] constraint = "object" -> value.kind = "object"

\* Mutant: values are checked only for the required parameters.
RequiredFit(schema, parameters) ==
  /\ schema.required \subseteq DOMAIN parameters
  /\ schema.additional \/ DOMAIN parameters \subseteq DOMAIN schema.properties
  /\ \A n \in schema.required : TypeFits(schema.properties[n], parameters[n])

ValidateParameters(schema, parameters) ==
  /\ schema.required \subseteq DOMAIN parameters
  /\ schema.additional \/ DOMAIN parameters \subseteq DOMAIN schema.properties
  /\ \A n \in DOMAIN parameters \cap DOMAIN schema.properties :
       TypeFits(schema.properties[n], parameters[n])

\* ManifestDocument.model_validate: the constraints its validators impose.
ValidRule(rule) ==
  /\ rule.schema.required \subseteq DOMAIN rule.schema.properties
  /\ rule.scope # None => /\ rule.scope # {}
                          /\ \A s \in rule.scope : s.claim \in Claims

\* Mutant: the rules of the allowed operations are not checked to exist.
RulesMayMiss(d) ==
  /\ DOMAIN d.tools # {}
  /\ \A t \in DOMAIN d.tools :
       /\ d.tools[t].allowed # {}
       /\ \A op \in DOMAIN d.tools[t].rules : ValidRule(d.tools[t].rules[op])

ValidDocument(d) ==
  /\ DOMAIN d.tools # {}
  /\ \A t \in DOMAIN d.tools :
       /\ d.tools[t].allowed # {}
       /\ d.tools[t].allowed = DOMAIN d.tools[t].rules
       /\ \A op \in DOMAIN d.tools[t].rules : ValidRule(d.tools[t].rules[op])

\* Mutant: a scope parameter that is absent is not compared.
PresentInScope(scope, session, parameters) ==
  \A r \in scope : r.parameter \in DOMAIN parameters =>
                     parameters[r.parameter] = session[r.claim]

\* data_scope: every rule's parameter is a string equal to the session's claim.
InScope(scope, session, parameters) ==
  \A r \in scope : /\ r.parameter \in DOMAIN parameters
                   /\ parameters[r.parameter].kind = "string"
                   /\ parameters[r.parameter] = session[r.claim]

-----------------------------------------------------------------------------
(* PolicyEvaluator.evaluate: the first check that fails gives the reason *)

\* Mutant: a manifest is in force until the end of its last instant.
InWindowInclusive(m, t) == m.from <= t /\ (m.until = None \/ t <= m.until)

InWindow(m, t) == m.from <= t /\ (m.until = None \/ t < m.until)

\* What is decided from the manifest row alone; None to go on to the tool.
ManifestReason(m, agent, t) ==
  IF m = None THEN "MANIFEST_NOT_FOUND"
  ELSE IF ~InWindow(m, t) THEN "MANIFEST_EXPIRED"
  ELSE IF m.checksum # m.document THEN "POLICY_INTEGRITY_VIOLATION"
  ELSE IF ~ValidDocument(m.document) THEN "POLICY_CONFIGURATION_INVALID"
  ELSE IF m.document.manifest_id # m.manifest_id \/ m.document.agent_id # m.agent_id
    THEN "POLICY_CONFIGURATION_INVALID"
  ELSE None

\* The rest: registry, tool, operation, parameters and data scope.
CallReason(m, d, r) ==
  LET tools == m.document.tools
      rule == tools[r.tool].rules[r.operation]
  IN IF d = None \/ d.status # "active" THEN "TOOL_NOT_REGISTERED"
     ELSE IF r.tool \notin DOMAIN tools THEN "TOOL_NOT_ALLOWED"
     ELSE IF r.operation \notin d.operations \cap tools[r.tool].allowed
       THEN "OPERATION_NOT_ALLOWED"
     ELSE IF ~ValidateParameters(rule.schema, r.parameters) THEN "INVALID_PARAMETERS"
     ELSE IF rule.scope # None /\ ~InScope(rule.scope, r.session, r.parameters)
       THEN "DATA_SCOPE_VIOLATION"
     ELSE "ALLOWED"

\* operation_rules[operation] and session_values[claim] find nothing: the
\* evaluation ends with a KeyError and no reason.  (The scope rules are a set
\* here: the lookup is counted although a rule before it may deny.)
LookupRaises(m, d, r) ==
  LET tools == m.document.tools
      rule == tools[r.tool].rules[r.operation]
  IN /\ d # None /\ d.status = "active"
     /\ r.tool \in DOMAIN tools
     /\ r.operation \in d.operations \cap tools[r.tool].allowed
     /\ \/ r.operation \notin DOMAIN tools[r.tool].rules
        \/ /\ ValidateParameters(rule.schema, r.parameters)
           /\ rule.scope # None /\ \E s \in rule.scope : s.claim \notin Claims

\* What the table holds for the agent: get_active selects by agent_id.
ActiveRows(agent) == {m \in ManifestRows : m.agent_id = agent} \cup {None}
ToolRowsOf(name) == {d \in ToolRows : d.name = name} \cup {None}

Init == /\ request = None /\ stage = "idle"
        /\ manifest = None /\ tool = None
        /\ read = None /\ readTool = None
        /\ now = None
        /\ reason = None
        /\ changes = 0

\* evaluate is called, whatever the tables hold by then, and reads the clock.
Evaluate(r) ==
  /\ stage = "idle" /\ stage' = "manifest"
  /\ request' = r
  /\ manifest' \in ActiveRows(r.agent)
  /\ tool' \in ToolRowsOf(r.tool)
  /\ now' \in Times
  /\ UNCHANGED <<read, readTool, reason, changes>>

\* Mutant: a denial of the manifest does not end the evaluation.
ReadManifestGoesOn ==
  /\ stage = "manifest"
  /\ read' = manifest
  /\ reason' = ManifestReason(manifest, request.agent, now)
  /\ stage' = IF manifest = None THEN "done" ELSE "tool"
  /\ UNCHANGED <<manifest, tool, request, readTool, now, changes>>

\* SELECT of the active manifest, and the checks on it.
ReadManifest ==
  /\ stage = "manifest"
  /\ read' = manifest
  /\ reason' = ManifestReason(manifest, request.agent, now)
  /\ stage' = IF reason' = None THEN "tool" ELSE "done"
  /\ UNCHANGED <<manifest, tool, request, readTool, now, changes>>

\* SELECT of the tool by name, and the checks on the call.
ReadTool ==
  /\ stage = "tool"
  /\ readTool' = tool
  /\ \/ LookupRaises(read, tool, request) /\ stage' = "raised" /\ reason' = reason
     \/ /\ ~LookupRaises(read, tool, request)
        /\ stage' = "done"
        /\ reason' = CallReason(read, tool, request)
  /\ UNCHANGED <<manifest, tool, request, read, now, changes>>

\* Another manifest is activated, or a tool's row updated, at any moment.
SwitchManifest(m) ==
  /\ stage # "idle" /\ changes < MaxChanges
  /\ m \in ActiveRows(request.agent) \ {None, manifest}
  /\ manifest' = m
  /\ changes' = changes + 1
  /\ UNCHANGED <<tool, request, stage, read, readTool, now, reason>>
UpdateTool(d) ==
  /\ stage # "idle" /\ changes < MaxChanges
  /\ d \in ToolRowsOf(request.tool) \ {None, tool}
  /\ tool' = d
  /\ changes' = changes + 1
  /\ UNCHANGED <<manifest, request, stage, read, readTool, now, reason>>

\* What goes on once a call has come.
Go == \/ ReadManifest \/ ReadTool
      \/ \E m \in ManifestRows : SwitchManifest(m)
      \/ \E d \in ToolRows : UpdateTool(d)

Next == (\E r \in Requests : Evaluate(r)) \/ Go

Spec == Init /\ [][Next]_vars

-----------------------------------------------------------------------------
(* Properties *)

\* The evaluation's variables have their types, and it ends with the first
\* check that fails: a reason is there exactly when the evaluation is done.
TypeOK == /\ stage = "idle" \/ (request \in Requests /\ now \in Times)
          /\ changes \in 0..MaxChanges
          /\ manifest \in ManifestRows \cup {None} /\ tool \in ToolRows \cup {None}
          /\ read \in ManifestRows \cup {None} /\ readTool \in ToolRows \cup {None}
          /\ stage \in {"idle", "manifest", "tool", "done", "raised"}
          /\ reason \in Reasons \cup {None}
          /\ (stage = "done") <=> (reason # None)

\* What a policy means, said as a grant and not as a list of refusals: the
\* manifest m, as it was approved and while it is in force, and the registered
\* tool d both name the operation, and the rule of the operation covers every
\* parameter of the call r.
Covered(rule, r) ==
  /\ \A n \in rule.schema.required : n \in DOMAIN r.parameters
  /\ \A n \in DOMAIN r.parameters :
       \/ n \in DOMAIN rule.schema.properties
            /\ TypeFits(rule.schema.properties[n], r.parameters[n])
       \/ n \notin DOMAIN rule.schema.properties /\ rule.schema.additional
  /\ rule.scope # None =>
       \A s \in rule.scope : s.parameter \in DOMAIN r.parameters
                             /\ r.parameters[s.parameter] = r.session[s.claim]
Permitted(m, d, r, t) ==
  /\ m # None /\ d # None
  /\ m.from <= t /\ (m.until # None => t < m.until)
  /\ m.checksum = m.document /\ ValidDocument(m.document)
  /\ m.document.agent_id = r.agent /\ m.document.manifest_id = m.manifest_id
  /\ d.status = "active" /\ r.operation \in d.operations
  /\ r.tool \in DOMAIN m.document.tools
  /\ r.operation \in m.document.tools[r.tool].allowed
  /\ Covered(m.document.tools[r.tool].rules[r.operation], r)

\* Default deny: a finished evaluation allows the call exactly when the rows it
\* read permit it, whatever was activated or disabled between its two reads.
AllowedIffPermitted ==
  stage = "done" => ((reason = "ALLOWED") <=> Permitted(read, readTool, request, now))

\* The data scope of an allowed call holds: whatever the schema requires or
\* leaves open, each scoped parameter is there and is the session's own value.
OwnRecordOnly ==
  reason = "ALLOWED" =>
    LET rule == read.document.tools[request.tool].rules[request.operation]
    IN rule.scope # None =>
         \A s \in rule.scope :
           /\ s.parameter \in DOMAIN request.parameters
           /\ request.parameters[s.parameter] = request.session[s.claim]

\* No document makes an evaluation raise, whatever the rows hold and whenever
\* they change: a stored document is free-form JSON, and one whose lookups would
\* fail (evaluator.py:110, :124) is denied with a reason before they are made.
\* A raise would answer 500 and leave the call without an audit event.
EvaluationDecides == stage # "raised"
=============================================================================
