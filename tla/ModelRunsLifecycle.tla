------------------------- MODULE ModelRunsLifecycle -------------------------
(***************************************************************************)
(* ModelRuns implements RunLifecycle: a run that has left the cluster is   *)
(* gone, and a tracked run is where its desired status says.               *)
(***************************************************************************)
EXTENDS ModelRuns

StageOf(r) ==
    IF r > nruns THEN "unborn"
    ELSE IF r \notin cluster THEN "gone"
    ELSE CASE row[r].desired = "RUNNING"   -> "wanted"
           [] row[r].desired = "REPLACING" -> "replacing"
           [] row[r].desired = "STOPPED"   -> "stopping"

Stage == [r \in Runs |-> StageOf(r)]
Owner == [r \in Runs |-> row[r].model]

Lifecycle == INSTANCE RunLifecycle WITH
    Nobody <- NONE,
    stage  <- Stage,
    owner  <- Owner

(* Whatever raises and whenever the process restarts, the runs of a model  *)
(* only go forward, and none but a new run of the model ever displaces the *)
(* wanted one.                                                             *)
ImplementsLifecycle == Lifecycle!Spec
=============================================================================
