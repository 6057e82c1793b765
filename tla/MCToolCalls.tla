----------------------------- MODULE MCToolCalls -----------------------------
(***************************************************************************)
(* Small instances of ToolCalls for TLC: one agent, two sessions (one of   *)
(* another agent), two idempotency keys, and the calls that take every     *)
(* path of the enforcement code.                                           *)
(***************************************************************************)
EXTENDS ToolCallsRefinement, TLC

CONSTANTS a1, a2, s1, s2, k1, k2, read

OneSessionAgent == s1 :> a1
MCSessionAgent == (s1 :> a1) @@ (s2 :> a2)

BaseCall == [agent |-> a1, session |-> s1, key |-> k1, operation |-> read,
             credential |-> TRUE, form |-> "sends", trace |-> "fits"]

\* The same call retried, and retried under a second key.
RetryCalls == {BaseCall, [BaseCall EXCEPT !.key = k2]}
\* Calls the adapter refuses or chokes on, and calls of a wrong identity.
OddCalls == {[BaseCall EXCEPT !.form = "refused"],
             [BaseCall EXCEPT !.form = "raises"],
             [BaseCall EXCEPT !.session = s2],
             [BaseCall EXCEPT !.credential = FALSE]}
\* The overlong trace of one retried call.
TraceCalls == {BaseCall, [BaseCall EXCEPT !.trace = "overlong"]}
MixedCalls == OddCalls \cup TraceCalls

RequestSymmetry == Permutations(Requests)
=============================================================================
