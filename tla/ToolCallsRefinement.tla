------------------------- MODULE ToolCallsRefinement -------------------------
(***************************************************************************)
(* ToolCalls, run by one worker, implements CallLedger: the decision of a  *)
(* request is its first audit event, its completion the second, and its    *)
(* effect is what the CRM carried out.                                     *)
(***************************************************************************)
EXTENDS ToolCalls

\* None is nothing the ledger could hold.
ASSUME LedgerAssumption ==
  /\ None \notin [key : Agents \X Keys, verdict : {"blocked", "authorized"}]
  /\ None \notin {"executed", "timed_out", "tool_failed"}

EventOf(r, n) == CHOOSE e \in events : e.request = r /\ e.sequence = n
HasEvent(r, n) == \E e \in events : e.request = r /\ e.sequence = n

DecisionOf(e) == [key |-> <<e.agent, e.key>>,
                  verdict |-> IF Authorized(e) THEN "authorized" ELSE "blocked"]

LedgerDecision ==
  [r \in Requests |-> IF HasEvent(r, 0) THEN DecisionOf(EventOf(r, 0)) ELSE None]
LedgerEffect == [r \in Requests |-> wire[r] = "applied"]
LedgerCompletion ==
  [r \in Requests |-> IF HasEvent(r, 1) THEN EventOf(r, 1).outcome.status ELSE None]

Ledger == INSTANCE CallLedger
            WITH CallKeys <- Agents \X Keys, decision <- LedgerDecision,
                 effect <- LedgerEffect, completion <- LedgerCompletion

\* Every step of the proxy, the CRM, a crash or a database failure is a step of
\* the ledger or invisible to it: no call is decided twice, no key is
\* authorized twice, no effect precedes its authorization (tool_calls.py:35).
ImplementsLedger == Ledger!Spec
=============================================================================
