----------------------------- MODULE MCModelRuns -----------------------------
(***************************************************************************)
(* Instances of ModelRuns for TLC.                                         *)
(***************************************************************************)
EXTENDS ModelRuns, JobMoves, TLC

ConfigSymmetry == Permutations(Configs)
ModelSymmetry  == Permutations(Models) \cup Permutations(Configs)
==============================================================================
