------------------------ MODULE MCModelRunsLifecycle ------------------------
(***************************************************************************)
(* The instances of ModelRuns for TLC, with the refinement in scope.       *)
(***************************************************************************)
EXTENDS ModelRunsLifecycle, MCModelRuns
=============================================================================
