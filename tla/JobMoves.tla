------------------------------ MODULE JobMoves ------------------------------
(***************************************************************************)
(* The statuses that a job of a runner goes through without being asked    *)
(* to, as the service sees them: what ModelRuns takes for granted of a     *)
(* runner, and what the model of the AWS runner is shown to keep to.       *)
(***************************************************************************)

JobStatuses == {"INITIALIZING", "RUNNING", "RECOVERING", "STOPPING", "STOPPED", "FAILED"}

(* The AWS runner: a service whose tasks come and go, *)
OwnMoves == {<<"INITIALIZING", "RUNNING">>, <<"INITIALIZING", "FAILED">>,
             <<"INITIALIZING", "RECOVERING">>,
             <<"RUNNING", "RECOVERING">>, <<"RUNNING", "FAILED">>,
             <<"RECOVERING", "RUNNING">>, <<"RECOVERING", "FAILED">>}

(* one that is on its way down, *)
StoppedMoves == {<<"STOPPING", "STOPPED">>, <<"STOPPING", "FAILED">>}

(* and one that is brought down for another run that shares it, or by      *)
(* somebody who deletes it: a run that nobody stopped is told of it too.   *)
DownMoves == {"INITIALIZING", "RUNNING", "RECOVERING"} \X {"STOPPING", "STOPPED"}

EcsMoves == OwnMoves \cup StoppedMoves \cup DownMoves

(* Any runner: Nomad starts again elsewhere what it cannot restart. *)
RunnerMoves == EcsMoves \cup {<<"RUNNING", "INITIALIZING">>}

(* A runner without restarts of its own, for the larger instances. *)
PlainMoves == {<<"INITIALIZING", "RUNNING">>, <<"RUNNING", "FAILED">>,
               <<"STOPPING", "STOPPED">>}
=============================================================================
