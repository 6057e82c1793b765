--------------------------- MODULE MCAuditQueries ----------------------------
(***************************************************************************)
(* Writers, and what events say, are interchangeable: only safety is       *)
(* checked, and a query may filter by any body.                            *)
(***************************************************************************)
EXTENDS AuditQueries, TLC

Symmetry == Permutations(Writers) \cup Permutations(Bodies)
=============================================================================
