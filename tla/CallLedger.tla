----------------------------- MODULE CallLedger ------------------------------
(***************************************************************************)
(* What the enforcement path promises, without workers, event loops,       *)
(* transactions or failures: one decision per request, one authorization   *)
(* per idempotency key, effects on the tool only for authorized requests,  *)
(* and a completion that claims no more than happened.                     *)
(* ToolCallsRefinement shows that ToolCalls implements it.                 *)
(***************************************************************************)
CONSTANTS Requests,
          CallKeys,   \* an idempotency key as one agent uses it
          None

VARIABLES decision,   \* the recorded decision of each request, or None
          effect,     \* whether the tool has carried the request out
          completion  \* how an authorized request was closed, or None

vars == <<decision, effect, completion>>

Verdict == {"blocked", "authorized"}
Completion == {"executed", "timed_out", "tool_failed"}

Init ==
  /\ decision = [r \in Requests |-> None]
  /\ effect = [r \in Requests |-> FALSE]
  /\ completion = [r \in Requests |-> None]

Decide(r, k, verdict) ==
  /\ decision[r] = None
  /\ decision' = [decision EXCEPT ![r] = [key |-> k, verdict |-> verdict]]
  /\ UNCHANGED <<effect, completion>>

\* A block is always possible: default deny.
Block(r, k) == Decide(r, k, "blocked")

\* Only the first request that uses a key may be authorized.
Authorize(r, k) ==
  /\ \A q \in Requests : decision[q] # None => decision[q].key # k
  /\ Decide(r, k, "authorized")

IsAuthorized(r) == decision[r] # None /\ decision[r].verdict = "authorized"

\* The tool carries an authorized request out, once, at any time.
Apply(r) ==
  /\ IsAuthorized(r)
  /\ ~effect[r]
  /\ effect' = [effect EXCEPT ![r] = TRUE]
  /\ UNCHANGED <<decision, completion>>

\* The request is closed once; "executed" is said only of what happened.
Complete(r, c) ==
  /\ IsAuthorized(r)
  /\ completion[r] = None
  /\ c = "executed" => effect[r]
  /\ completion' = [completion EXCEPT ![r] = c]
  /\ UNCHANGED <<decision, effect>>

Next == \E r \in Requests :
          \/ \E k \in CallKeys : Block(r, k) \/ Authorize(r, k)
          \/ Apply(r)
          \/ \E c \in Completion : Complete(r, c)

Spec == Init /\ [][Next]_vars
=============================================================================
