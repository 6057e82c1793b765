--------------------------- MODULE ManifestRegister ---------------------------
(***************************************************************************)
(* What activation promises, without locks or statements: a register that  *)
(* holds at most one manifest of each agent, is switched in one step, is   *)
(* never emptied, and never goes back to a manifest it has left.           *)
(***************************************************************************)
CONSTANTS Agents, Manifests, ManifestAgent, None

VARIABLES active,   \* the manifest in force of each agent, or None
          retired   \* manifests that were in force and are no more

vars == <<active, retired>>

Init == /\ active = [a \in Agents |-> None]
        /\ retired = {}

Switch(a, m) ==
  /\ ManifestAgent[m] = a
  /\ m # active[a]
  /\ m \notin retired
  /\ active' = [active EXCEPT ![a] = m]
  /\ retired' = retired \cup ({active[a]} \ {None})

Next == \E a \in Agents, m \in Manifests : Switch(a, m)

Spec == Init /\ [][Next]_vars
=============================================================================
