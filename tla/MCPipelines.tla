---------------------------- MODULE MCPipelines -----------------------------
(***************************************************************************)
(* An image built on a base image, and pipelines of the default branch, of *)
(* merge requests and of a branch without one.                             *)
(***************************************************************************)
EXTENDS Pipelines, TLC

CONSTANTS base, app, amd64, arm64

MCImages == {base, app}
MCDeps == [i \in MCImages |-> IF i = app THEN {base} ELSE {}]
PlatformSymmetry == Permutations({amd64, arm64})
=============================================================================
