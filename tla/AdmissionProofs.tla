--------------------------- MODULE AdmissionProofs ---------------------------
(***************************************************************************)
(* Admission only brings calls before the evaluator, so what PolicyProofs  *)
(* proves of evaluations holds of it too; and every call it brings is      *)
(* vouched for by a host, for any registry, tokens, sessions and settings. *)
(***************************************************************************)
EXTENDS Admission, PolicyProofs

SessionRows == [agent : AgentIds, customer : Customers, user : Users,
                state : {"active", "revoked"}, by : AccessTokens]

GateType ==
  /\ row \in [SessionIds -> SessionRows \cup {None}]
  /\ claims = [s \in SessionIds |-> claims[s]]
  /\ caller = None \/ caller \in [token : AccessTokens, session : SessionIds,
                                 agent : AgentIds \cup {None}]

\* Only a trusted principal makes sessions.
Made(r) == r \in SessionRows /\ MayManage(r.by, "session:create")
RowsMade == \A s \in SessionIds : row[s] # None \/ claims[s] # None => Made(row[s])

\* Who the caller is, after its token was decoded and after its agent was found.
CallerKnown ==
  caller # None =>
    /\ Made(row[caller.session])
    /\ Decodes(caller.token)
    /\ caller.agent # None => /\ caller.token.use = "agent"
                              /\ SubjectOf[caller.agent] = caller.token.subject

\* What validation has established about a call that is evaluated.
Validated ==
  stage # "idle" =>
    /\ caller # None /\ caller.agent # None
    /\ SessionValid(caller.session, caller.agent)
    /\ request.agent = caller.agent
    /\ request.session["customer_id"] = claims[caller.session].customer
    /\ request.session["user_id"] = claims[caller.session].user

GInv == Startable(settings) /\ GateType /\ RowsMade /\ CallerKnown /\ Validated

\* Before anything happens there is neither a session nor a caller.
LEMMA InitGate == AInit => GInv
  BY DEF AInit, Init, GInv, GateType, RowsMade, CallerKnown, Validated

\* Replacing one session row by one that is made keeps every row made.
LEMMA RowWritten ==
  ASSUME GInv, stage = "idle", UNCHANGED vars, UNCHANGED <<settings, caller>>,
         NEW s \in SessionIds, NEW new, Made(new), row' = [row EXCEPT ![s] = new],
         claims' = claims \/ \E c : claims' = [claims EXCEPT ![s] = c]
  PROVE  GInv'
<1>1. GateType' BY DEF GInv, GateType, Made
<1>2. \A r : Made(r) => Made(r)' BY DEF Made, MayManage, Decodes, HasKeyOf
<1>3. \A q \in SessionIds : /\ q = s => row'[q] = new
                            /\ q # s => row'[q] = row[q] /\ claims'[q] = claims[q]
  BY DEF GInv, GateType
<1>4. RowsMade' BY <1>2, <1>3 DEF GInv, RowsMade
<1>5. CallerKnown'
  <2> SUFFICES ASSUME caller # None PROVE CallerKnown'
    BY DEF CallerKnown
  <2>1. caller.session \in SessionIds BY DEF GInv, GateType
  <2>2. Made(row[caller.session])' BY <1>2, <1>3, <2>1 DEF GInv, CallerKnown
  <2> QED BY <2>2 DEF GInv, CallerKnown, Decodes, HasKeyOf
<1>6. Validated' BY DEF vars, Validated
<1> QED BY <1>1, <1>4, <1>5, <1>6 DEF GInv, Startable

\* Hosts and administrators write rows that are made, or leave them alone.
LEMMA SessionsKeep ==
  ASSUME GInv, stage = "idle", UNCHANGED vars,
         \/ \E t \in AccessTokens, s \in SessionIds :
              \/ \E a \in AgentIds, c \in Customers, u \in Users : CreateSession(t, s, a, c, u)
              \/ RevokeSession(t, s)
         \/ Administer
  PROVE  GInv'
<1>1. CASE \E t \in AccessTokens, s \in SessionIds, a \in AgentIds, c \in Customers, u \in Users :
             CreateSession(t, s, a, c, u)
  <2>1. PICK t \in AccessTokens, s \in SessionIds, a \in AgentIds, c \in Customers, u \in Users :
          CreateSession(t, s, a, c, u)
    BY <1>1
  <2> DEFINE new == [agent |-> a, customer |-> c, user |-> u, state |-> "active", by |-> t]
  <2>2. Made(new) BY <2>1 DEF CreateSession, Made, SessionRows
  <2>3. row' = [row EXCEPT ![s] = new] /\ \E d : claims' = [claims EXCEPT ![s] = d]
    BY <2>1 DEF CreateSession
  <2>4. UNCHANGED <<settings, caller>> BY <2>1 DEF CreateSession
  <2> HIDE DEF new
  <2> QED BY <2>2, <2>3, <2>4, RowWritten
<1>2. CASE \E t \in AccessTokens, s \in SessionIds : RevokeSession(t, s)
  <2>1. PICK t \in AccessTokens, s \in SessionIds : RevokeSession(t, s)
    BY <1>2
  <2> DEFINE new == [row[s] EXCEPT !.state = "revoked"]
  <2>2. Made(row[s]) BY <2>1 DEF GInv, RowsMade, RevokeSession
  <2>3. Made(new) BY <2>2 DEF Made, SessionRows
  <2>4. row' = [row EXCEPT ![s] = new] /\ UNCHANGED <<settings, claims, caller>>
    BY <2>1 DEF RevokeSession
  <2> HIDE DEF new
  <2> QED BY <2>3, <2>4, RowWritten
<1>3. CASE \E s \in SessionIds, c \in Customers :
             row[s] # None /\ row' = [row EXCEPT ![s].customer = c] /\ Administer
  <2>1. PICK s \in SessionIds, c \in Customers :
          row[s] # None /\ row' = [row EXCEPT ![s].customer = c] /\ Administer
    BY <1>3
  <2> DEFINE new == [row[s] EXCEPT !.customer = c]
  <2>2. Made(row[s]) BY <2>1 DEF GInv, RowsMade
  <2>3. Made(new) BY <2>2 DEF Made, SessionRows
  <2>4. row' = [row EXCEPT ![s] = new] /\ UNCHANGED <<settings, claims, caller>>
    BY <2>1 DEF Administer
  <2> HIDE DEF new
  <2> QED BY <2>3, <2>4, RowWritten
<1>4. CASE Administer /\ UNCHANGED row
  <2>1. UNCHANGED <<settings, row, claims, caller>> BY <1>4 DEF Administer
  <2> QED BY <2>1 DEF vars, GInv, Startable, GateType, RowsMade, Made, MayManage, CallerKnown,
                      Decodes, HasKeyOf, Validated
<1> QED BY <1>1, <1>2, <1>3, <1>4 DEF Administer

\* The steps of a call establish who calls.
LEMMA CallerKeeps ==
  ASSUME GInv, stage = "idle", UNCHANGED vars,
         \/ \E t \in AccessTokens, s \in SessionIds : Present(t, s)
         \/ ResolveActiveAgent \/ Refuse
  PROVE  GInv'
<1>1. UNCHANGED <<settings, row, claims>> BY DEF Present, ResolveActiveAgent, Refuse
<1>2. \A r : Made(r) => Made(r)' BY <1>1 DEF Made, MayManage, Decodes, HasKeyOf
<1>3. RowsMade' BY <1>1, <1>2 DEF GInv, RowsMade
<1>4. Startable(settings)' /\ Validated' BY <1>1 DEF vars, GInv, Startable, Validated
<1>5. GateType' /\ CallerKnown'
  <2>1. CASE \E t \in AccessTokens, s \in SessionIds : Present(t, s)
    <3>1. PICK t \in AccessTokens, s \in SessionIds : Present(t, s)
      BY <2>1
    <3>2. caller' = [token |-> t, session |-> s, agent |-> None] /\ Decodes(t)
          /\ claims[s] # None
      BY <3>1 DEF Present
    <3>3. Made(row[s])' BY <1>1, <1>2, <3>2 DEF GInv, RowsMade
    <3>4. Decodes(t)' BY <1>1, <3>2 DEF Decodes, HasKeyOf
    <3> QED BY <1>1, <3>2, <3>3, <3>4 DEF GInv, GateType, CallerKnown
  <2>2. CASE ResolveActiveAgent
    <3>1. CASE caller' = None
      BY <1>1, <3>1 DEF GInv, GateType, CallerKnown
    <3>2. CASE \E a \in AgentIds : /\ SubjectOf[a] = caller.token.subject
                                  /\ caller.token.use = "agent"
                                  /\ caller' = [caller EXCEPT !.agent = a]
      <4>1. PICK a \in AgentIds : /\ SubjectOf[a] = caller.token.subject
                                  /\ caller.token.use = "agent"
                                  /\ caller' = [caller EXCEPT !.agent = a]
        BY <3>2
      <4>2. /\ caller # None
            /\ caller \in [token : AccessTokens, session : SessionIds, agent : AgentIds \cup {None}]
        BY <2>2 DEF ResolveActiveAgent, GInv, GateType
      <4>3. /\ caller'.token = caller.token /\ caller'.session = caller.session
            /\ caller'.agent = a
            /\ caller' \in [token : AccessTokens, session : SessionIds, agent : AgentIds \cup {None}]
        BY <4>1, <4>2
      <4>4. Made(row[caller.session])' /\ Decodes(caller.token)'
        BY <1>1, <1>2, <4>2, <4>3 DEF GInv, CallerKnown, Decodes, HasKeyOf
      <4> QED BY <1>1, <4>1, <4>3, <4>4 DEF GInv, GateType, CallerKnown
    <3> QED BY <2>2, <3>1, <3>2 DEF ResolveActiveAgent
  <2>3. CASE Refuse
    BY <1>1, <2>3 DEF Refuse, GInv, GateType, CallerKnown
  <2> QED BY <2>1, <2>2, <2>3
<1> QED BY <1>3, <1>4, <1>5 DEF GInv

\* A call is admitted with a session that holds, and nothing of the gate moves
\* while it is evaluated.
LEMMA EvaluationKeeps ==
  ASSUME GInv, (\E r \in Requests : Admit(r)) \/ (Go /\ UNCHANGED gate)
  PROVE  GInv'
<1>1. UNCHANGED gate BY DEF Admit
<1>2. Startable(settings)' /\ GateType' /\ RowsMade' /\ CallerKnown'
  BY <1>1 DEF gate, GInv, Startable, GateType, RowsMade, Made, MayManage, CallerKnown,
              Decodes, HasKeyOf
<1>3. Validated'
  <2>1. CASE \E r \in Requests : Admit(r)
    BY <1>1, <2>1 DEF Admit, Evaluate, gate, Validated, SessionValid
  <2>2. CASE Go
    <3>1. stage # "idle" /\ UNCHANGED request
      BY <2>2 DEF Go, ReadManifest, ReadTool, SwitchManifest, UpdateTool
    <3> QED BY <1>1, <3>1 DEF gate, GInv, Validated, SessionValid
  <2> QED BY <2>1, <2>2
<1> QED BY <1>2, <1>3 DEF GInv

\* Every reachable state satisfies the invariant of the gate.
LEMMA GateAlways == ASpec => []GInv
<1>1. GInv /\ [ANext]_<<vars, gate>> => GInv'
  <2> SUFFICES ASSUME GInv, [ANext]_<<vars, gate>> PROVE GInv'
    OBVIOUS
  <2>1. CASE UNCHANGED <<vars, gate>>
    BY <2>1 DEF vars, gate, GInv, Startable, GateType, RowsMade, Made, MayManage, CallerKnown,
                Decodes, HasKeyOf, Validated, SessionValid
  <2>2. CASE stage = "idle" /\ Approach /\ UNCHANGED vars
    BY <2>2, SessionsKeep, CallerKeeps DEF Approach
  <2> QED BY <2>1, <2>2, EvaluationKeeps DEF ANext
<1> QED BY InitGate, <1>1, PTL DEF ASpec

\* Admission implements the evaluator: each of its steps is one of the
\* evaluator's or leaves the evaluation alone.
THEOREM AdmissionIsEvaluation == ASpec => Spec
<1>1. AInit => Init BY DEF AInit
<1>2. [ANext]_<<vars, gate>> => [Next]_vars
  BY DEF ANext, Admit, Next, vars
<1> QED BY <1>1, <1>2, PTL DEF ASpec, Spec

\* Every call that is evaluated is vouched for by a trusted principal, and an
\* allowed one touches the customer of its session only.
THEOREM CallsAreVouchedFor == ASpec => []HostNamedTheCustomer
<1>1. GInv /\ OwnRecordOnly => HostNamedTheCustomer
  <2> SUFFICES ASSUME GInv, OwnRecordOnly, stage # "idle" PROVE HostNamedTheCustomer
    BY DEF HostNamedTheCustomer
  <2>1. /\ caller # None /\ caller.agent # None
        /\ SessionValid(caller.session, caller.agent)
        /\ request.agent = caller.agent
        /\ request.session["customer_id"] = claims[caller.session].customer
        /\ request.session["user_id"] = claims[caller.session].user
    BY DEF GInv, Validated
  <2>2. /\ Made(row[caller.session])
        /\ caller.token.use = "agent" /\ SubjectOf[caller.agent] = caller.token.subject
    BY <2>1 DEF GInv, CallerKnown
  <2>3. VouchedFor
    BY <2>1, <2>2 DEF VouchedFor, Made, MayManage, SessionValid
  <2>4. row[caller.session].customer = request.session["customer_id"]
    BY <2>1 DEF SessionValid
  <2> QED BY <2>3, <2>4 DEF HostNamedTheCustomer, OwnRecordOnly
<1> QED BY <1>1, GateAlways, AdmissionIsEvaluation, ScopeIsEnforced, PTL

\* In production no call that is evaluated rests on a development credential.
THEOREM NothingDevelopmental == ASpec => []ProductionTrustsProvider
<1>1. GInv => ProductionTrustsProvider
  <2> SUFFICES ASSUME GInv, stage # "idle", settings.env = "production" PROVE ProviderSigned
    BY DEF ProductionTrustsProvider
  <2>1. ~settings.devAuth BY DEF GInv, Startable
  <2>2. Made(row[caller.session]) /\ Decodes(caller.token)
    BY DEF GInv, Validated, CallerKnown
  <2> QED BY <2>1, <2>2 DEF ProviderSigned, Made, MayManage, Decodes, HasKeyOf
<1> QED BY <1>1, GateAlways, PTL
=============================================================================
