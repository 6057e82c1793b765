----------------------------- MODULE PolicyProofs -----------------------------
(***************************************************************************)
(* PolicyEvaluator allows a call exactly when the rows it read permit it,  *)
(* for any manifests, tools, calls and clock.  The invariant remembers,    *)
(* across the two reads, what the manifest's checks established.           *)
(***************************************************************************)
EXTENDS PolicyEvaluator, TLAPS

\* What each stage of the evaluation has established about what it read.
Established ==
  /\ stage # "raised"
  /\ stage = "idle" => manifest = None /\ read = None
  /\ manifest = None \/ manifest.agent_id = request.agent
  /\ read = None \/ read.agent_id = request.agent
  /\ stage = "tool" => ManifestReason(read, request.agent, now) = None
  /\ stage = "done" =>
       \/ reason = ManifestReason(read, request.agent, now) /\ reason # None
       \/ ManifestReason(read, request.agent, now) = None
            /\ reason = CallReason(read, readTool, request)

IInv == TypeOK /\ Established

\* The reason codes are distinct from one another and from None, and both
\* halves of the evaluation answer with one of them.
LEMMA ReasonsRange ==
  ASSUME NEW m, NEW d, NEW r, NEW a, NEW t
  PROVE  /\ ManifestReason(m, a, t) \in (Reasons \ {"ALLOWED"}) \cup {None}
         /\ CallReason(m, d, r) \in Reasons
  BY NoneAssumption DEF ManifestReason, CallReason, Reasons

\* validate_parameters and the data-scope loop together are what Covered says,
\* for a rule the document's validators have accepted.
LEMMA CoveredIsBoth ==
  ASSUME NEW rule, NEW r \in Requests, ValidRule(rule)
  PROVE  Covered(rule, r) <=>
           /\ ValidateParameters(rule.schema, r.parameters)
           /\ rule.scope # None => InScope(rule.scope, r.session, r.parameters)
<1>1. \A s \in rule.scope : rule.scope # None => r.session[s.claim].kind = "string"
  BY SessionAssumption DEF ValidRule
<1>2. (rule.scope # None => InScope(rule.scope, r.session, r.parameters)) <=>
        (rule.scope # None =>
           \A s \in rule.scope : s.parameter \in DOMAIN r.parameters
                                 /\ r.parameters[s.parameter] = r.session[s.claim])
  BY <1>1 DEF InScope
<1>3. ValidateParameters(rule.schema, r.parameters) <=>
        /\ \A n \in rule.schema.required : n \in DOMAIN r.parameters
        /\ \A n \in DOMAIN r.parameters :
             \/ n \in DOMAIN rule.schema.properties
                  /\ TypeFits(rule.schema.properties[n], r.parameters[n])
             \/ n \notin DOMAIN rule.schema.properties /\ rule.schema.additional
  BY DEF ValidateParameters
<1> QED BY <1>2, <1>3 DEF Covered

\* A manifest row passes its checks when it is in force, unaltered, valid and
\* about this agent: the part of Permitted that needs no tool.
LEMMA ManifestPasses ==
  ASSUME NEW m, NEW a, NEW t, m = None \/ m.agent_id = a
  PROVE  (ManifestReason(m, a, t) = None) <=>
           /\ m # None
           /\ m.from <= t /\ (m.until # None => t < m.until)
           /\ m.checksum = m.document /\ ValidDocument(m.document)
           /\ m.document.agent_id = a /\ m.document.manifest_id = m.manifest_id
  BY NoneAssumption DEF ManifestReason, InWindow, Reasons

\* Given a manifest that passes, the rest of the evaluation allows the call
\* exactly when the whole is permitted.
LEMMA CallAllowed ==
  ASSUME NEW m, NEW d, NEW r \in Requests, NEW t,
         m = None \/ m.agent_id = r.agent, ManifestReason(m, r.agent, t) = None
  PROVE  (CallReason(m, d, r) = "ALLOWED") <=> Permitted(m, d, r, t)
<1> DEFINE tools == m.document.tools
           rule == tools[r.tool].rules[r.operation]
<1>1. /\ m # None /\ m.from <= t /\ (m.until # None => t < m.until)
      /\ m.checksum = m.document /\ ValidDocument(m.document)
      /\ m.document.agent_id = r.agent /\ m.document.manifest_id = m.manifest_id
  BY ManifestPasses
<1>2. CASE /\ r.tool \in DOMAIN tools
           /\ r.operation \in tools[r.tool].allowed
  <2>1. ValidRule(rule) BY <1>1, <1>2 DEF ValidDocument
  <2>2. Covered(rule, r) <=>
           /\ ValidateParameters(rule.schema, r.parameters)
           /\ rule.scope # None => InScope(rule.scope, r.session, r.parameters)
    BY <2>1, CoveredIsBoth
  <2> QED BY <1>1, <1>2, <2>2 DEF CallReason, Permitted
<1>3. CASE ~ /\ r.tool \in DOMAIN tools
             /\ r.operation \in tools[r.tool].allowed
  BY <1>3 DEF CallReason, Permitted
<1> QED BY <1>2, <1>3

\* The invariant holds before anything is read.
LEMMA InitEstablished == Init => IInv
  BY NoneAssumption, BoundsAssumption DEF Init, IInv, TypeOK, Established

\* A call comes with the rows of its own agent and tool.
LEMMA EvaluateKeeps == IInv /\ (\E r \in Requests : Evaluate(r)) => IInv'
<1> SUFFICES ASSUME IInv, NEW r \in Requests, Evaluate(r) PROVE IInv'
  OBVIOUS
<1>1. /\ stage = "idle" /\ stage' = "manifest" /\ request' = r /\ now' \in Times
      /\ manifest' \in ManifestRows \cup {None} /\ tool' \in ToolRows \cup {None}
      /\ manifest' = None \/ manifest'.agent_id = r.agent
      /\ UNCHANGED <<read, readTool, reason, changes>>
  BY DEF Evaluate, ActiveRows, ToolRowsOf
<1>2. TypeOK' BY <1>1 DEF IInv, TypeOK
<1>3. Established' BY <1>1 DEF IInv, Established
<1> QED BY <1>2, <1>3 DEF IInv

\* Reading the manifest settles the first half of the evaluation.
LEMMA ReadManifestKeeps == IInv /\ ReadManifest => IInv'
<1> SUFFICES ASSUME IInv, ReadManifest PROVE IInv'
  OBVIOUS
<1> DEFINE verdict == ManifestReason(manifest, request.agent, now)
<1>1. verdict \in (Reasons \ {"ALLOWED"}) \cup {None} BY ReasonsRange
<1>2. stage = "manifest" /\ read' = manifest /\ reason' = verdict
  BY DEF ReadManifest
<1>3. stage' = IF reason' = None THEN "tool" ELSE "done"
  BY DEF ReadManifest
<1>4. UNCHANGED <<manifest, tool, request, readTool, now, changes>>
  BY DEF ReadManifest
<1>5. TypeOK' BY <1>1, <1>2, <1>3, <1>4 DEF IInv, TypeOK
<1>6. Established'
  BY <1>2, <1>3, <1>4 DEF IInv, Established, ManifestReason, InWindow
<1> QED BY <1>5, <1>6 DEF IInv

\* Reading the tool settles the second half.
LEMMA ReadToolKeeps == IInv /\ ReadTool => IInv'
<1> SUFFICES ASSUME IInv, ReadTool PROVE IInv'
  OBVIOUS
<1>1. CallReason(read, tool, request) \in Reasons BY ReasonsRange
<1>0. ~LookupRaises(read, tool, request)
  <2>1. ValidDocument(read.document)
    BY ManifestPasses DEF IInv, Established, ReadTool
  <2> QED BY <2>1 DEF ValidDocument, ValidRule, LookupRaises
<1>2. /\ stage = "tool" /\ stage' = "done" /\ readTool' = tool
      /\ reason' = CallReason(read, tool, request)
      /\ UNCHANGED <<manifest, tool, request, read, now, changes>>
  BY <1>0 DEF ReadTool
<1>3. TypeOK' BY <1>1, <1>2, NoneAssumption DEF IInv, TypeOK
<1>4. reason' = CallReason(read, readTool, request)'
  BY <1>2 DEF CallReason, ValidateParameters, InScope
<1>5. (ManifestReason(read, request.agent, now) = None)'
  BY <1>2 DEF IInv, Established, ManifestReason, InWindow
<1>6. Established' BY <1>2, <1>4, <1>5 DEF IInv, Established
<1> QED BY <1>3, <1>6 DEF IInv

\* An administrator's change leaves what was read alone.
LEMMA ChangeKeeps ==
  IInv /\ ((\E m \in ManifestRows : SwitchManifest(m)) \/ \E d \in ToolRows : UpdateTool(d))
    => IInv'
<1> SUFFICES ASSUME IInv, \/ \E m \in ManifestRows : SwitchManifest(m)
                          \/ \E d \in ToolRows : UpdateTool(d)
             PROVE  IInv'
  OBVIOUS
<1>1. /\ stage # "idle" /\ changes < MaxChanges /\ changes' = changes + 1
      /\ UNCHANGED <<request, stage, read, readTool, now, reason>>
      /\ manifest' = manifest \/ manifest' \in ActiveRows(request.agent) \ {None}
      /\ tool' = tool \/ tool' \in ToolRows
  BY DEF SwitchManifest, UpdateTool
<1>2. TypeOK' BY <1>1, BoundsAssumption DEF IInv, TypeOK, ActiveRows
<1>3. Established'
  BY <1>1 DEF IInv, Established, ActiveRows, ManifestReason, InWindow, CallReason,
              ValidateParameters, InScope
<1> QED BY <1>2, <1>3 DEF IInv

\* Every reachable state satisfies the invariant.
LEMMA EstablishedAlways == Spec => []IInv
<1>1. IInv /\ [Next]_vars => IInv'
  <2> SUFFICES ASSUME IInv, [Next]_vars PROVE IInv'
    OBVIOUS
  <2>1. CASE UNCHANGED vars
    BY <2>1 DEF vars, IInv, TypeOK, Established, ManifestReason, InWindow, CallReason,
                ValidateParameters, InScope
  <2> QED BY <2>1, EvaluateKeeps, ReadManifestKeeps, ReadToolKeeps, ChangeKeeps DEF Next, Go
<1> QED BY InitEstablished, <1>1, PTL DEF Spec

\* The evaluator ends with the first check that fails, and with a reason.
THEOREM EvaluatorTypeCorrect == Spec => []TypeOK
<1>1. IInv => TypeOK BY DEF IInv
<1> QED BY <1>1, EstablishedAlways, PTL

\* Default deny: the evaluator allows a call exactly when the manifest and the
\* tool it read permit it.
THEOREM DefaultDeny == Spec => []AllowedIffPermitted
<1>1. IInv => AllowedIffPermitted
  <2> SUFFICES ASSUME IInv, stage = "done"
               PROVE  (reason = "ALLOWED") <=> Permitted(read, readTool, request, now)
    BY DEF AllowedIffPermitted
  <2>1. request \in Requests /\ (read = None \/ read.agent_id = request.agent)
    BY DEF IInv, TypeOK, Established
  <2>2. CASE ManifestReason(read, request.agent, now) = None
    <3>1. reason = CallReason(read, readTool, request)
      BY <2>2 DEF IInv, Established
    <3> QED BY <2>1, <2>2, <3>1, CallAllowed
  <2>3. CASE ManifestReason(read, request.agent, now) # None
    <3>1. reason # "ALLOWED" BY <2>3, ReasonsRange DEF IInv, Established
    <3>2. ~Permitted(read, readTool, request, now)
      BY <2>1, <2>3, ManifestPasses DEF Permitted
    <3> QED BY <3>1, <3>2
  <2> QED BY <2>2, <2>3
<1> QED BY <1>1, EstablishedAlways, PTL

\* An allowed call carries, in every parameter its rule scopes, the session's
\* own value.
THEOREM ScopeIsEnforced == Spec => []OwnRecordOnly
<1>1. IInv => OwnRecordOnly
  <2> SUFFICES ASSUME IInv, reason = "ALLOWED" PROVE OwnRecordOnly
    BY DEF OwnRecordOnly
  <2>1. stage = "done" BY NoneAssumption DEF IInv, TypeOK, Reasons
  <2>2. CallReason(read, readTool, request) = "ALLOWED"
    BY <2>1, ReasonsRange DEF IInv, Established
  <2> QED BY <2>2 DEF CallReason, InScope, OwnRecordOnly
<1> QED BY <1>1, EstablishedAlways, PTL

\* No evaluation raises: what its lookups need was checked before they are made.
THEOREM EveryEvaluationDecides == Spec => []EvaluationDecides
<1>1. IInv => EvaluationDecides BY DEF IInv, Established, EvaluationDecides
<1> QED BY <1>1, EstablishedAlways, PTL
=============================================================================
