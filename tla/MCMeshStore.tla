---------------------------- MODULE MCMeshStore ----------------------------
(***************************************************************************)
(* Two nodes and the hop nothing resolved: a chain that crosses the link   *)
(* between them twice and one whose only hop was not resolved; for the id  *)
(* reuse, a direct chain.                                                  *)
(***************************************************************************)
EXTENDS MeshStore

CONSTANTS a, b

TwoNodes == {a, b}
CrossedTwice == {<<b, a, b>>, <<a, Unresolved>>}
Direct == {<<a, b>>, <<a, Unresolved>>}
============================================================================
