------------------------------ MODULE MCPipeline ------------------------------
(* Instances of Pipeline for TLC. *)
EXTENDS Pipeline, TLC

CONSTANTS worker, admin

One == {worker}
Two == {worker, admin}
Symmetry == Permutations({worker, admin})
=============================================================================
