---------------------------- MODULE MCManifests ------------------------------
(***************************************************************************)
(* Three manifests of one agent, one of another, for TLC.                  *)
(***************************************************************************)
EXTENDS Manifests, TLC

CONSTANTS a1, a2, m1, m2, m3, n1

MCManifestAgent == (m1 :> a1) @@ (m2 :> a1) @@ (m3 :> a1) @@ (n1 :> a2)
=============================================================================
