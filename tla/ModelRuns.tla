------------------------------ MODULE ModelRuns ------------------------------
(***************************************************************************)
(* The core of the orchestrator: ModelRunsService with the run, build and  *)
(* error-handling services it owns (services/model_runs), the in-memory    *)
(* ModelRunsCluster, the model_runs table and the jobs that the Builder    *)
(* and the Runner keep in the cloud.                                       *)
(*                                                                         *)
(* Threads.  The configuration poller, the schedule poller and the HTTP    *)
(* API call start_model and stop_model, the update loop calls              *)
(* updates_states, the WebSocket server calls report_model_runner_failure. *)
(* ModelRunsService.lock is held for the whole of a call, so one variable, *)
(* op, describes the call that holds it: where it is (pc) and its locals.  *)
(* A call is cut into steps where it talks to the Builder or the Runner,   *)
(* whose jobs evolve meanwhile, and where a crash of the process would     *)
(* leave the table in a state worth telling apart.                         *)
(*                                                                         *)
(* Memory and table.  Every setter of ModelRun that these services call is *)
(* followed by save_model before anything else is called, so one variable, *)
(* row, stands for the object and for its row; save_model is taken to      *)
(* succeed.  A restart keeps row and rebuilds cluster from it.             *)
(*                                                                         *)
(* A run is the number of its creation, which is also its position in the  *)
(* lists of the cluster and of load_statuses.                              *)
(***************************************************************************)
EXTENDS Integers, Sequences

CONSTANTS
    Models,        \* model ids
    Configs,       \* <code_submission_id, resource_id, hardware_type> triples
    MaxRuns,       \* bound: number of ModelRun objects ever created
    MaxAddr,       \* bound: number of addresses a job may have one after the other
    MaxReports,    \* bound: failure reports waiting at the same time
    MaxCrashes,    \* bound: number of times the process may crash
    CanQuarantine, \* AppConfig.can_place_in_quarantine
    TaskMoves,     \* status changes <<from, to>> a runner job makes on its own
    Faults         \* calls that may raise: "build", "run", "stop", "load"

RunnerFaults == {"build", "run", "stop", "load"}

NONE == "NONE"      \* Python's None

DesiredStatus == {"RUNNING", "REPLACING", "STOPPED"}
RunnerStatus  == {"INITIALIZING", "RUNNING", "STOPPING", "STOPPED", "FAILED", "RECOVERING"}
BuilderStatus == {"BUILDING", "FAILED", "SUCCESS"}

CloudProviderErrorType == {"RUN_EXCEPTION", "BUILD_EXCEPTION"}
(* MULTIPLE_FAILED stands for the four model-runner errors other than      *)
(* CONNECTION_FAILED: handle_error does not tell them apart.               *)
ModelRunnerErrorType  == {"CONNECTION_FAILED", "MULTIPLE_FAILED"}
OrchestratorErrorType == {"UNKNOWN", "BUILD_FAILED", "RUN_FAILED", "STOP_UNEXPECTED",
                          "IN_QUARANTINE", "STOP_BEFORE_CLEANUP"}
ErrorType == CloudProviderErrorType \cup ModelRunnerErrorType \cup OrchestratorErrorType

ASSUME ModelRunsAssumption ==
    /\ NONE \notin Models
    /\ NONE \notin Configs
    /\ MaxRuns \in Nat
    /\ MaxAddr \in Nat \ {0}
    /\ MaxReports \in Nat
    /\ MaxCrashes \in Nat
    /\ CanQuarantine \in BOOLEAN
    /\ TaskMoves \subseteq RunnerStatus \X RunnerStatus
    /\ Faults \subseteq RunnerFaults

Runs == 1..MaxRuns

(* The fields of a ModelRun that the services read or write.  job says     *)
(* whether runner_job_id is set; ip is 0 for None and otherwise names one  *)
(* of the addresses the job has had.                                       *)
ModelRun == [model       : Models \cup {NONE},
             config      : Configs \cup {NONE},
             desired     : DesiredStatus,
             runner      : RunnerStatus \cup {NONE},
             builder     : BuilderStatus \cup {NONE},
             job         : BOOLEAN,
             ip          : 0..MaxAddr,
             failure     : ErrorType \cup {NONE},
             quarantined : BOOLEAN]

VARIABLES
    row,      \* row[r]: the ModelRun object r and its row in model_runs
    nruns,    \* number of runs created
    cluster,  \* runs in ModelRunsCluster (memory only)
    op,       \* the call that holds ModelRunsService.lock (memory only)
    reports,  \* failures_reported (memory only)
    cloud,    \* cloud[r]: the runner job and the build job of r
    told,     \* history: told[r] is the last status of r sent to the observers
    crashes   \* number of crashes so far

vars == <<row, nruns, cluster, op, reports, cloud, told, crashes>>

-----------------------------------------------------------------------------
(* The call in progress.                                                   *)

Report == [run : Runs, ip : 1..MaxAddr, code : ModelRunnerErrorType]
Error  == [run : Runs, code : ErrorType]

Points == {"idle",                                  \* lock free
           "is_built", "build", "run", "launched",  \* starting cur
           "halt", "stop",                          \* stopping cur
           "reports", "load", "runners", "replace", "runner_errors",
           "load_builds", "builders", "builder_errors"}

(* cur: the run in hand; ret: the point to go back to; seen: statuses      *)
(* loaded and still to be processed; stops: replaced runs still to be      *)
(* stopped; lost and errors: the list raised at the end of an update, the  *)
(* UNKNOWN errors of the runs in lost first; pending: the reports copied   *)
(* by updates_states.                                                      *)
Op == [pc      : Points,
       cur     : 0..MaxRuns,
       ret     : Points,
       seen    : [Runs -> [status : RunnerStatus \cup BuilderStatus \cup {NONE}, ip : 0..MaxAddr]],
       stops   : SUBSET Runs,
       lost    : SUBSET Runs,
       errors  : Seq(Error),
       pending : Seq(Report)]

Unseen == [r \in Runs |-> [status |-> NONE, ip |-> 0]]
NoOp == [pc |-> "idle", cur |-> 0, ret |-> "idle", seen |-> Unseen,
         stops |-> {}, lost |-> {}, errors |-> <<>>, pending |-> <<>>]
At(o, point) == [o EXCEPT !.pc = point]
Raise(o, r, code) == [o EXCEPT !.errors = Append(@, [run |-> r, code |-> code])]

(* The call made by the step at op.cur returns. *)
Back == [op EXCEPT !.pc = op.ret, !.cur = 0, !.ret = "idle"]

Oldest(S) == CHOOSE r \in S : \A s \in S : r <= s

-----------------------------------------------------------------------------
(* ModelRun predicates and ModelRunsCluster queries.                       *)

InRunPhase(run)   == run.runner # NONE
InBuildPhase(run) == run.runner = NONE /\ run.builder # NONE
IsRunActive(run)  == run.runner \in {"INITIALIZING", "RECOVERING", "RUNNING"} /\ run.job
IsRunning(run)    == run.runner = "RUNNING" /\ run.job
HasFailed(run)    == run.failure # NONE

ModelsByIdAndDesired(m, statuses) ==
    {r \in cluster : row[r].model = m /\ row[r].desired \in statuses}
RunningModels(rows, members) ==
    {r \in members : rows[r].desired \in {"RUNNING", "REPLACING"} /\ rows[r].runner = "RUNNING"}
(* Defect: the runs are taken from the table.                             *)
ModelsInRunPhaseUntracked == {r \in Runs : InRunPhase(row[r])}
ModelsInRunPhase   == {r \in cluster : InRunPhase(row[r])}
ModelsInBuildPhase == {r \in cluster : InBuildPhase(row[r])}

(* Repository queries.  NOT (NULL = 'STOPPED' OR ...) is NULL in SQL: a    *)
(* row without a runner status is not selected.                            *)
(* Defect: FAILED rows are loaded too.                                    *)
LoadActiveNotStopped == {r \in Runs : row[r].runner \notin {NONE, "STOPPED"}}
LoadActive == {r \in Runs : row[r].runner \notin {NONE, "STOPPED", "FAILED"}}
LoadAllLatest ==
    {r \in 1..nruns : \A s \in 1..nruns : row[s].model = row[r].model => s <= r}
IsModelInQuarantine(m, c) ==
    \E r \in 1..nruns : row[r].model = m /\ row[r].config = c /\ row[r].quarantined

-----------------------------------------------------------------------------
Blank == [model |-> NONE, config |-> NONE, desired |-> "STOPPED", runner |-> NONE,
          builder |-> NONE, job |-> FALSE, ip |-> 0, failure |-> NONE, quarantined |-> FALSE]

Init ==
    /\ row = [r \in Runs |-> Blank]
    /\ nruns = 0
    /\ cluster = {}
    /\ op = NoOp
    /\ reports = <<>>
    /\ cloud = [r \in Runs |-> [task |-> NONE, addr |-> 1, image |-> NONE]]
    /\ told = [r \in Runs |-> NONE]
    /\ crashes = 0

-----------------------------------------------------------------------------
(* Fragments shared by the calls.  next is the value op takes when the     *)
(* fragment returns normally.                                              *)

(* notify_runner_state_changed: every observer is given the status. *)
(* Defect: failures are left to notify_failure.                           *)
TellButFailures(r, status) ==
    told' = IF status = "FAILED" THEN told ELSE [told EXCEPT ![r] = status]

Tell(r, status) == told' = [told EXCEPT ![r] = status]

(* finalize_model_cleanup *)
FinalizeModelCleanup(r, run, next) ==
    /\ row' = [row EXCEPT ![r] = [run EXCEPT !.runner = "FAILED"]]
    /\ cluster' = cluster \ {r}
    /\ op' = next

PlaceToQuarantine(code) ==
    /\ CanQuarantine
    /\ code \notin CloudProviderErrorType
    /\ code \notin {"IN_QUARANTINE", "CONNECTION_FAILED", "STOP_UNEXPECTED"}

WithFailure(run, code) ==
    [run EXCEPT !.failure = code,
                !.quarantined = @ \/ PlaceToQuarantine(code)]

(* Defect: an active run is not stopped.                                  *)
HandleErrorNoStop(r, code, next) ==
    IF code # "STOP_BEFORE_CLEANUP" /\ IsRunActive(row[r])
    THEN /\ row' = [row EXCEPT ![r] = WithFailure(row[r], code)]
         /\ op' = next
         /\ UNCHANGED cluster
    ELSE FinalizeModelCleanup(r, WithFailure(row[r], code), next)

(* Defect: an active run is cleaned up like any other.                    *)
HandleErrorAtOnce(r, code, next) == FinalizeModelCleanup(r, WithFailure(row[r], code), next)

(* handle_error up to the call of stop_model, which is the next step of    *)
(* the caller ("halt"): the failure and the quarantine are saved by then.  *)
HandleError(r, code, next) ==
    IF code = "STOP_BEFORE_CLEANUP"
    THEN FinalizeModelCleanup(r, row[r], next)
    ELSE IF IsRunActive(row[r]) /\ code \notin CloudProviderErrorType
    THEN /\ row' = [row EXCEPT ![r] = WithFailure(row[r], code)]
         /\ op' = [next EXCEPT !.pc = "halt", !.ret = next.pc, !.cur = r]
         /\ UNCHANGED cluster
    ELSE FinalizeModelCleanup(r, WithFailure(row[r], code), next)

(* Defect: the run is removed without waiting for its stop.               *)
StopRunForgets(r, next) ==
    /\ row' = [row EXCEPT ![r].desired = "STOPPED"]
    /\ Tell(r, "STOPPED")
    /\ cluster' = cluster \ {r}
    /\ op' = IF InRunPhase(row[r])
             THEN [next EXCEPT !.pc = "stop", !.ret = next.pc, !.cur = r]
             ELSE next

(* Defect: a run that is starting is removed like one being built.        *)
StopRunOnlyRunning(r, next) ==
    /\ row' = [row EXCEPT ![r].desired = "STOPPED"]
    /\ Tell(r, "STOPPED")
    /\ IF IsRunning(row[r])
       THEN /\ op' = [next EXCEPT !.pc = "stop", !.ret = next.pc, !.cur = r]
            /\ UNCHANGED cluster
       ELSE /\ cluster' = cluster \ {r}
            /\ op' = next

(* Defect: the desired status is not updated.                             *)
StopRunStillDesired(r, next) ==
    /\ Tell(r, "STOPPED")
    /\ IF InRunPhase(row[r])
       THEN /\ op' = [next EXCEPT !.pc = "stop", !.ret = next.pc, !.cur = r]
            /\ UNCHANGED <<row, cluster>>
       ELSE /\ cluster' = cluster \ {r}
            /\ op' = next
            /\ UNCHANGED row

(* _RunService.stop_model up to the call of Runner.stop ("stop"). *)
StopRun(r, next) ==
    /\ row' = [row EXCEPT ![r].desired = "STOPPED"]
    /\ Tell(r, "STOPPED")
    /\ IF InRunPhase(row[r])
       THEN /\ op' = [next EXCEPT !.pc = "stop", !.ret = next.pc, !.cur = r]
            /\ UNCHANGED cluster
       ELSE /\ cluster' = cluster \ {r}
            /\ op' = next

(* run_model up to the call of Runner.run ("run"). *)
RunModel(r, run, next) ==
    /\ row' = [row EXCEPT ![r] = [run EXCEPT !.runner = "INITIALIZING", !.job = FALSE]]
    /\ op' = [next EXCEPT !.pc = "run", !.ret = next.pc, !.cur = r]

-----------------------------------------------------------------------------
(* start_model.                                                            *)

NewRun(m, c) == [Blank EXCEPT !.model = m, !.config = c, !.desired = "RUNNING"]

(* Defect: only a run that is up already is replaced.                     *)
ReplacedRunning(m) ==
    LET running == {r \in ModelsByIdAndDesired(m, {"RUNNING"}) : IsRunning(row[r])}
    IN  IF running = {} THEN {} ELSE {Oldest(running)}

(* The run that start_model marks REPLACING, if any. *)
Replaced(m) ==
    LET running == ModelsByIdAndDesired(m, {"RUNNING"})
    IN  IF running = {} THEN {} ELSE {Oldest(running)}

HasChanged(r, c) == row[r].config # c

(* start_model and _start_new_model up to the call of Builder.is_built.    *)
(* With a quarantined configuration the run is only a FAILED row, but the  *)
(* run it was to replace stays REPLACING.                                  *)
StartModel(m, c) ==
    /\ op.pc = "idle"
    /\ nruns < MaxRuns
    /\ \A r \in Replaced(m) : HasChanged(r, c)
    /\ LET new  == nruns + 1
           rows == [r \in Runs |-> IF r \in Replaced(m)
                                   THEN [row[r] EXCEPT !.desired = "REPLACING"]
                                   ELSE row[r]]
       IN  /\ nruns' = new
           /\ IF IsModelInQuarantine(m, c)
              THEN /\ row' = [rows EXCEPT ![new] =
                                [NewRun(m, c) EXCEPT !.failure = "IN_QUARANTINE",
                                                     !.runner = "FAILED"]]
                   /\ UNCHANGED <<cluster, op>>
              ELSE /\ row' = [rows EXCEPT ![new] = NewRun(m, c)]
                   /\ cluster' = cluster \cup {new}
                   /\ op' = [NoOp EXCEPT !.pc = "is_built", !.cur = new]
    /\ UNCHANGED <<reports, cloud, told, crashes>>

(* Builder.is_built: an exception counts as "not built". *)
IsBuilt ==
    /\ op.pc = "is_built"
    /\ \/ RunModel(op.cur, row[op.cur], At(op, "idle"))
       \/ /\ row' = [row EXCEPT ![op.cur].builder = "BUILDING"]
          /\ op' = At(op, "build")
    /\ UNCHANGED <<nruns, cluster, reports, cloud, told, crashes>>

(* Builder.build returns a job id, which is saved. *)
Build ==
    /\ op.pc = "build"
    /\ cloud' = [cloud EXCEPT ![op.cur].image = "BUILDING"]
    /\ op' = NoOp
    /\ UNCHANGED <<row, nruns, cluster, reports, told, crashes>>

BuildRaises ==
    /\ op.pc = "build"
    /\ "build" \in Faults
    /\ HandleError(op.cur, "BUILD_EXCEPTION", NoOp)
    /\ UNCHANGED <<nruns, reports, cloud, told, crashes>>

(* Runner.run creates the job ... *)
Run ==
    /\ op.pc = "run"
    /\ cloud' = [cloud EXCEPT ![op.cur].task = "INITIALIZING"]
    /\ op' = At(op, "launched")
    /\ UNCHANGED <<row, nruns, cluster, reports, told, crashes>>

(* ... and returns its id, which is saved. *)
Launched ==
    /\ op.pc = "launched"
    /\ row' = [row EXCEPT ![op.cur].job = TRUE]
    /\ Tell(op.cur, "INITIALIZING")
    /\ op' = Back
    /\ UNCHANGED <<nruns, cluster, reports, cloud, crashes>>

(* Runner.run raises.  start_model handles the OrchestratorError.  Out of  *)
(* update_builder_states it escapes the loop and updates_states, which     *)
(* only catches OrchestratorErrors: the builds still to be processed and   *)
(* the errors collected so far are dropped.                                *)
RunRaises ==
    /\ op.pc = "run"
    /\ "run" \in Faults
    /\ IF op.ret = "idle"
       THEN HandleError(op.cur, "RUN_EXCEPTION", NoOp)
       ELSE op' = NoOp /\ UNCHANGED <<row, cluster>>
    /\ UNCHANGED <<nruns, reports, cloud, told, crashes>>

-----------------------------------------------------------------------------
(* stop_model: the oldest run of the model that is not to be stopped yet.  *)

StopModel(m) ==
    LET active == ModelsByIdAndDesired(m, {"RUNNING", "REPLACING"})
    IN  /\ op.pc = "idle"
        /\ active # {}
        /\ StopRun(Oldest(active), NoOp)
        /\ UNCHANGED <<nruns, reports, cloud, crashes>>

(* handle_error calls stop_model on a run that is active. *)
Halt ==
    /\ op.pc = "halt"
    /\ StopRun(op.cur, Back)
    /\ UNCHANGED <<nruns, reports, cloud, crashes>>

(* Runner.stop: a job that is alive starts stopping. *)
Stop ==
    /\ op.pc = "stop"
    /\ cloud' = [cloud EXCEPT ![op.cur].task =
                    IF @ \in {"INITIALIZING", "RUNNING", "RECOVERING"} THEN "STOPPING" ELSE @]
    /\ op' = Back
    /\ UNCHANGED <<row, nruns, cluster, reports, told, crashes>>

(* Runner.stop raises and the job goes on.  stop_model handles the error;  *)
(* the loop over replaced runs keeps it for later; out of handle_error it  *)
(* escapes updates_states.                                                 *)
StopRaises ==
    /\ op.pc = "stop"
    /\ "stop" \in Faults
    /\ CASE op.ret = "idle" -> HandleError(op.cur, "RUN_EXCEPTION", NoOp)
         [] op.ret = "replace" -> /\ op' = Raise(Back, op.cur, "RUN_EXCEPTION")
                                  /\ UNCHANGED <<row, cluster>>
         [] OTHER -> op' = NoOp /\ UNCHANGED <<row, cluster>>
    /\ UNCHANGED <<nruns, reports, cloud, told, crashes>>

-----------------------------------------------------------------------------
(* updates_states, first part: the failures reported by the coordinators.  *)

UpdatesStates ==
    /\ op.pc = "idle"
    /\ op' = [NoOp EXCEPT !.pc = "reports", !.pending = reports]
    /\ reports' = <<>>
    /\ UNCHANGED <<row, nruns, cluster, cloud, told, crashes>>

(* A report names a model and an address, and the first tracked run of the *)
(* model that has the address is held to have failed.  That is the run of  *)
(* the report if it still has the address it had, or another run: two runs *)
(* have one address when they share a service, a node or a host, or when   *)
(* the one was given what the other had.                                   *)
Named(rep) == rep.run \in cluster /\ row[rep.run].ip = rep.ip

HeldFailed(rep) ==
    {r \in cluster :
        /\ row[r].model = row[rep.run].model
        /\ row[r].ip > 0
        /\ r = rep.run => Named(rep)
        /\ Named(rep) => r <= rep.run}

(* A report for an address that no tracked run of the model has makes      *)
(* updates_states return: the other reports and the updates are skipped.   *)
HandleReport ==
    /\ op.pc = "reports"
    /\ op.pending # <<>>
    /\ LET rep  == Head(op.pending)
           next == [op EXCEPT !.pending = Tail(@)]
       IN  \/ \E r \in HeldFailed(rep) : HandleError(r, rep.code, next)
           \/ ~Named(rep) /\ op' = NoOp /\ UNCHANGED <<row, cluster>>
    /\ UNCHANGED <<nruns, reports, cloud, told, crashes>>

(* update_models_info: renamed is the set of runs whose augmented info has *)
(* changed; the observers are told of those that are running.              *)
(* Defect: is_running is not checked.                                     *)
TellRunningAnyway(renamed) ==
    told' = [r \in Runs |-> IF r \in renamed THEN "RUNNING" ELSE told[r]]
TellRunning(renamed) ==
    told' = [r \in Runs |-> IF r \in renamed /\ IsRunning(row[r]) THEN "RUNNING" ELSE told[r]]

UpdateModelsInfo ==
    /\ op.pc = "reports"
    /\ op.pending = <<>>
    /\ op' = At(op, "load")
    /\ \E renamed \in SUBSET ModelsInRunPhase : TellRunning(renamed)
    /\ UNCHANGED <<row, nruns, cluster, reports, cloud, crashes>>

(* get_all_models, for the local HTTP API. *)
GetAllModels ==
    /\ op.pc = "idle"
    /\ \E renamed \in SUBSET LoadAllLatest : TellRunning(renamed)
    /\ UNCHANGED <<row, nruns, cluster, op, reports, cloud, crashes>>

-----------------------------------------------------------------------------
(* updates_states, second part: update_runner_states.                      *)

(* What load_statuses returns for the job of r; the address is only known  *)
(* while the job runs.                                                     *)
(* Defect: the status of the build is taken.                              *)
LoadedImage(r) == [status |-> cloud[r].image, ip |-> 0]
Loaded(r) == [status |-> cloud[r].task,
              ip     |-> IF cloud[r].task = "RUNNING" THEN cloud[r].addr ELSE 0]

(* A status that has not changed leads to nothing, but for a new address   *)
(* of a run that is RUNNING; seen only keeps the others.                   *)
News(r) ==
    \/ Loaded(r).status # row[r].runner
    \/ row[r].runner = "RUNNING" /\ Loaded(r).ip # row[r].ip

JobUnknown(r) == row[r].runner = "INITIALIZING" /\ ~row[r].job

LoadRunnerStates ==
    /\ op.pc = "load"
    /\ op' = [op EXCEPT
                !.pc = "runners",
                !.lost = {r \in ModelsInRunPhase : JobUnknown(r)},
                !.seen = [r \in Runs |->
                            IF r \in ModelsInRunPhase /\ ~JobUnknown(r) /\ News(r)
                            THEN Loaded(r) ELSE Unseen[r]]]
    /\ UNCHANGED <<row, nruns, cluster, reports, cloud, told, crashes>>

(* load_statuses raises: the runs are left as they are. *)
LoadRunnerStatesRaises ==
    /\ op.pc = "load"
    /\ "load" \in Faults
    /\ op' = [op EXCEPT !.pc = "runners",
                        !.lost = {r \in ModelsInRunPhase : JobUnknown(r)},
                        !.seen = Unseen]
    /\ UNCHANGED <<row, nruns, cluster, reports, cloud, told, crashes>>

Processing == {r \in Runs : op.seen[r].status # NONE}

(* Defect: only the first of the replaced runs is stopped.                *)
AfterStatusOneStop(r, status, next) ==
    LET replaced == ModelsByIdAndDesired(row[r].model, {"REPLACING"})
    IN  CASE status = "RUNNING" ->
                [next EXCEPT !.pc = "replace",
                             !.stops = IF replaced = {} THEN {} ELSE {Oldest(replaced)}]
          [] status = "FAILED" -> Raise(next, r, "RUN_FAILED")
          [] status = "STOPPED" /\ HasFailed(row[r]) -> Raise(next, r, "STOP_BEFORE_CLEANUP")
          [] status = "STOPPED" /\ ~HasFailed(row[r]) /\ row[r].desired # "STOPPED" ->
                Raise(next, r, "STOP_UNEXPECTED")
          [] OTHER -> next

(* Defect: the desired status is not looked at.                           *)
AfterStatusAnyStop(r, status, next) ==
    CASE status = "RUNNING" ->
            [next EXCEPT !.pc = "replace",
                         !.stops = ModelsByIdAndDesired(row[r].model, {"REPLACING"})]
      [] status = "FAILED" -> Raise(next, r, "RUN_FAILED")
      [] status = "STOPPED" ->
            Raise(next, r, IF HasFailed(row[r]) THEN "STOP_BEFORE_CLEANUP" ELSE "STOP_UNEXPECTED")
      [] OTHER -> next

(* Defect: an undesired stop is cleaned up without a failure.             *)
AfterStatusCleanUp(r, status, next) ==
    CASE status = "RUNNING" ->
            [next EXCEPT !.pc = "replace",
                         !.stops = ModelsByIdAndDesired(row[r].model, {"REPLACING"})]
      [] status = "FAILED" -> Raise(next, r, "RUN_FAILED")
      [] status = "STOPPED" /\ (HasFailed(row[r]) \/ row[r].desired # "STOPPED") ->
            Raise(next, r, "STOP_BEFORE_CLEANUP")
      [] OTHER -> next

(* The errors and the replaced runs a status change of r leads to. *)
AfterStatus(r, status, next) ==
    CASE status = "RUNNING" ->
            [next EXCEPT !.pc = "replace",
                         !.stops = ModelsByIdAndDesired(row[r].model, {"REPLACING"})]
      [] status = "FAILED" -> Raise(next, r, "RUN_FAILED")
      [] status = "STOPPED" /\ HasFailed(row[r]) -> Raise(next, r, "STOP_BEFORE_CLEANUP")
      [] status = "STOPPED" /\ ~HasFailed(row[r]) /\ row[r].desired # "STOPPED" ->
            Raise(next, r, "STOP_UNEXPECTED")
      [] OTHER -> next

(* Defect: only a run seen STOPPING before is removed.                    *)
LeavesStopping(r, status) ==
    status = "STOPPED" /\ row[r].runner = "STOPPING" /\ ~HasFailed(row[r])
        /\ row[r].desired = "STOPPED"

Leaves(r, status) ==
    status = "STOPPED" /\ ~HasFailed(row[r]) /\ row[r].desired = "STOPPED"

UpdateRunnerState ==
    /\ op.pc = "runners"
    /\ Processing # {}
    /\ LET r    == Oldest(Processing)
           s    == op.seen[r]
           next == [op EXCEPT !.seen[r] = Unseen[r]]
           changed == s.status # row[r].runner
       IN  /\ row' = [row EXCEPT ![r].runner = s.status, ![r].ip = s.ip]
           /\ Tell(r, s.status)
           /\ op' = IF changed THEN AfterStatus(r, s.status, next) ELSE next
           /\ cluster' = IF changed /\ Leaves(r, s.status) THEN cluster \ {r} ELSE cluster
    /\ UNCHANGED <<nruns, reports, cloud, crashes>>

(* A run is RUNNING: the runs it replaces are stopped one after the other. *)
StopReplaced ==
    /\ op.pc = "replace"
    /\ IF op.stops = {}
       THEN op' = At(op, "runners") /\ UNCHANGED <<row, cluster, told>>
       ELSE LET r == Oldest(op.stops)
            IN  StopRun(r, [op EXCEPT !.stops = @ \ {r}])
    /\ UNCHANGED <<nruns, reports, cloud, crashes>>

RunnerStatesDone ==
    /\ op.pc = "runners"
    /\ Processing = {}
    /\ op' = At(op, "runner_errors")
    /\ UNCHANGED <<row, nruns, cluster, reports, cloud, told, crashes>>

(* handle_error_from_exceptions, for the runner and for the builder. *)
HandleErrors ==
    /\ op.pc \in {"runner_errors", "builder_errors"}
    /\ \/ /\ op.lost # {}
          /\ HandleError(Oldest(op.lost), "UNKNOWN", [op EXCEPT !.lost = @ \ {Oldest(@)}])
       \/ /\ op.lost = {}
          /\ op.errors # <<>>
          /\ HandleError(Head(op.errors).run, Head(op.errors).code,
                         [op EXCEPT !.errors = Tail(@)])
    /\ UNCHANGED <<nruns, reports, cloud, told, crashes>>

ErrorsDone ==
    /\ op.pc \in {"runner_errors", "builder_errors"}
    /\ op.lost = {}
    /\ op.errors = <<>>
    /\ op' = IF op.pc = "runner_errors" THEN [NoOp EXCEPT !.pc = "load_builds"] ELSE NoOp
    /\ UNCHANGED <<row, nruns, cluster, reports, cloud, told, crashes>>

-----------------------------------------------------------------------------
(* updates_states, third part: update_builder_states.                      *)

BuildNews(r) == cloud[r].image # row[r].builder \/ cloud[r].image = "SUCCESS"

LoadBuilderStates ==
    /\ op.pc = "load_builds"
    /\ op' = [op EXCEPT
                !.pc = "builders",
                !.seen = [r \in Runs |->
                            IF r \in ModelsInBuildPhase /\ BuildNews(r)
                            THEN [status |-> cloud[r].image, ip |-> 0]
                            ELSE Unseen[r]]]
    /\ UNCHANGED <<row, nruns, cluster, reports, cloud, told, crashes>>

(* load_statuses raises: update_builder_states returns. *)
LoadBuilderStatesRaises ==
    /\ op.pc = "load_builds"
    /\ "load" \in Faults
    /\ op' = NoOp
    /\ UNCHANGED <<row, nruns, cluster, reports, cloud, told, crashes>>

(* Defect: a failed build is only saved.                                  *)
AfterBuildForgets(r, status, next) == next

(* The error a new status of the build of r leads to. *)
AfterBuild(r, status, next) ==
    IF status = "FAILED" /\ row[r].builder # "FAILED"
    THEN Raise(next, r, "BUILD_FAILED") ELSE next

(* One build.  Once it has succeeded the run is launched (on_model_built). *)
UpdateBuilderState ==
    /\ op.pc = "builders"
    /\ Processing # {}
    /\ LET r     == Oldest(Processing)
           s     == op.seen[r].status
           next  == [op EXCEPT !.seen[r] = Unseen[r]]
           built == [row[r] EXCEPT !.builder = s]
       IN  IF s = "SUCCESS" /\ row[r].desired # "STOPPED"
           THEN RunModel(r, built, next)
           ELSE /\ row' = [row EXCEPT ![r] = built]
                /\ op' = AfterBuild(r, s, next)
    /\ UNCHANGED <<nruns, cluster, reports, cloud, told, crashes>>

BuilderStatesDone ==
    /\ op.pc = "builders"
    /\ Processing = {}
    /\ op' = At(op, "builder_errors")
    /\ UNCHANGED <<row, nruns, cluster, reports, cloud, told, crashes>>

-----------------------------------------------------------------------------
(* The environment.                                                        *)

(* A job changes status on its own; coming back from a failed task it may  *)
(* have another address.                                                   *)
TaskMove(r) ==
    /\ \E move \in TaskMoves :
        /\ move[1] = cloud[r].task
        /\ \/ cloud' = [cloud EXCEPT ![r].task = move[2]]
           \/ /\ move = <<"RECOVERING", "RUNNING">>
              /\ cloud[r].addr < MaxAddr
              /\ cloud' = [cloud EXCEPT ![r].task = "RUNNING", ![r].addr = @ + 1]
    /\ UNCHANGED <<row, nruns, cluster, op, reports, told, crashes>>

ImageMove(r) ==
    /\ cloud[r].image = "BUILDING"
    /\ \E status \in {"SUCCESS", "FAILED"} : cloud' = [cloud EXCEPT ![r].image = status]
    /\ UNCHANGED <<row, nruns, cluster, op, reports, told, crashes>>

(* A coordinator reports the failure of a run whose address it was given;  *)
(* the server drops the report if no run of the model is tracked.          *)
ReportModelRunnerFailure(r, code) ==
    /\ op.pc = "idle"
    /\ Len(reports) < MaxReports
    /\ row[r].ip > 0
    /\ \E s \in cluster : row[s].model = row[r].model
    /\ reports' = Append(reports, [run |-> r, ip |-> row[r].ip, code |-> code])
    /\ UNCHANGED <<row, nruns, cluster, op, cloud, told, crashes>>

(* The process dies and starts again; the observers reconnect and are sent *)
(* the running models.                                                     *)
Crash ==
    /\ crashes < MaxCrashes
    /\ crashes' = crashes + 1
    /\ cluster' = LoadActive
    /\ op' = NoOp
    /\ reports' = <<>>
    /\ told' = [r \in Runs |-> IF r \in RunningModels(row, LoadActive) THEN "RUNNING" ELSE NONE]
    /\ UNCHANGED <<row, nruns, cloud>>

-----------------------------------------------------------------------------
(* The next step of the call that holds the lock. *)
Proceed ==
    \/ IsBuilt \/ Build \/ BuildRaises \/ Run \/ RunRaises \/ Launched
    \/ Halt \/ Stop \/ StopRaises
    \/ HandleReport \/ UpdateModelsInfo
    \/ LoadRunnerStates \/ LoadRunnerStatesRaises
    \/ UpdateRunnerState \/ StopReplaced \/ RunnerStatesDone
    \/ HandleErrors \/ ErrorsDone
    \/ LoadBuilderStates \/ LoadBuilderStatesRaises
    \/ UpdateBuilderState \/ BuilderStatesDone

Environment ==
    \/ \E r \in Runs : TaskMove(r) \/ ImageMove(r)
    \/ \E r \in Runs, code \in ModelRunnerErrorType : ReportModelRunnerFailure(r, code)
    \/ Crash

Next ==
    \/ \E m \in Models, c \in Configs : StartModel(m, c)
    \/ \E m \in Models : StopModel(m)
    \/ UpdatesStates
    \/ GetAllModels
    \/ Proceed
    \/ Environment

Spec == Init /\ [][Next]_vars

(***************************************************************************)
(* Fairness.  A call that holds the lock is ordinary sequential code whose *)
(* cloud calls return or raise; update_model_states calls updates_states   *)
(* again and again; a job does not stay for ever in a status it can leave. *)
(* Nothing is assumed of the users, the coordinators and the crashes.      *)
(***************************************************************************)
Fairness ==
    /\ WF_vars(Proceed)
    /\ WF_vars(UpdatesStates)
    /\ \A r \in Runs : WF_vars(TaskMove(r)) /\ WF_vars(ImageMove(r))

FairSpec == Spec /\ Fairness

-----------------------------------------------------------------------------
(* Properties.                                                             *)

Idle == op.pc = "idle"
TaskAlive(r) == cloud[r].task \in {"INITIALIZING", "RUNNING", "RECOVERING"}
SameModel(r, s) == row[r].model = row[s].model

(* The type of every variable. *)
TypeOK ==
    /\ row \in [Runs -> ModelRun]
    /\ nruns \in 0..MaxRuns
    /\ cluster \subseteq Runs
    /\ op \in Op
    /\ reports \in Seq(Report)
    /\ cloud \in [Runs -> [task : RunnerStatus \cup {NONE}, addr : 1..MaxAddr,
                           image : BuilderStatus \cup {NONE}]]
    /\ told \in [Runs -> RunnerStatus \cup {NONE}]
    /\ crashes \in 0..MaxCrashes

(* What a call in progress may rely on.  The point a step returns to is    *)
(* one of the loops, and errors are not handled inside a loop over         *)
(* statuses; the run in hand exists, and is still tracked while            *)
(* start_model works on it; every status or build result still to be       *)
(* applied belongs to a tracked run that is in the matching phase, though  *)
(* runs leave the cluster in the middle of the loop over these results.    *)
ErrorPoints  == {"idle", "reports", "runner_errors", "builder_errors"}
ReturnPoints == ErrorPoints \cup {"replace", "builders"}
Phase == IF op.pc \in {"is_built", "build", "run", "launched", "halt", "stop"}
         THEN op.ret ELSE op.pc

CallInv ==
    /\ op.ret \in ReturnPoints
    /\ op.pc = "halt" => op.ret \in ErrorPoints
    /\ op.pc \in {"is_built", "build", "run", "launched", "halt", "stop"} => op.cur \in Runs
    /\ op.pc = "is_built" => op.cur \in cluster
    /\ Phase \in {"runners", "replace"} =>
            \A r \in Processing : /\ op.seen[r].status \in RunnerStatus
                                  /\ r \in cluster
                                  /\ InRunPhase(row[r])
    /\ Phase = "builders" =>
            \A r \in Processing : op.seen[r].status \in BuilderStatus /\ r \in cluster

(* At most one tracked run of a model is wanted: start_model relies on it  *)
(* when it takes the first of the running runs as the one to replace, and  *)
(* only logs a warning if there are more.  It must survive replacements,   *)
(* failures half-way through a call and the reloading of the table.        *)
OneWantedRun ==
    \A r, s \in cluster :
        SameModel(r, s) /\ row[r].desired = "RUNNING" /\ row[s].desired = "RUNNING" => r = s

(* What load_active would select at any moment is tracked already, so that *)
(* a restart brings back no run that the service had let go of.            *)
ActiveRunsTracked == LoadActive \subseteq cluster

(* A run that has left the cluster with a final status is never touched    *)
(* again: no late answer, error or restart revives or rewrites it.         *)
SettledForever ==
    [][\A r \in 1..nruns :
          r \notin cluster /\ row[r].runner \in {"STOPPED", "FAILED"} =>
              /\ r \notin cluster'
              /\ row'[r].desired = row[r].desired
              /\ row'[r].runner = row[r].runner]_vars

(* Between two calls, a live job in the cloud belongs to a tracked run     *)
(* that is not to be stopped: none is forgotten, no stop request is lost.  *)
(* It needs calls that do not raise and no crash: see the README.          *)
LiveJobsWanted ==
    Idle => \A r \in Runs : TaskAlive(r) => r \in cluster /\ row[r].desired # "STOPPED"

(* Between two calls, the observers were last told the status that the     *)
(* table holds for every tracked run that is not being stopped.            *)
ObserversInformed ==
    Idle => \A r \in cluster :
                InRunPhase(row[r]) /\ row[r].desired # "STOPPED" => told[r] = row[r].runner

(* A coordinator that connects is sent as RUNNING exactly the runs that    *)
(* the others were last told are RUNNING, but for those to be stopped: it  *)
(* is sent what get_running_models finds in the cluster, the others know   *)
(* the announcements, and neither a call that raises half-way nor a        *)
(* restart makes the two disagree.  StateSubject takes it for granted.     *)
RunningAsAnnounced ==
    RunningModels(row, cluster) =
        {r \in Runs : told[r] = "RUNNING" /\ row[r].desired # "STOPPED"}

(* Between two calls, the last thing the observers were told of a run that *)
(* is no longer tracked is not that it is up or coming up: WebSocketServer *)
(* ignores notify_failure, so the status itself must have been sent.       *)
NoGhostAnnounced ==
    Idle => \A r \in (1..nruns) \ cluster : told[r] \notin {"RUNNING", "RECOVERING"}

(* Between two calls, a tracked run with a recorded failure, quarantined   *)
(* or not, is being stopped: handle_error finishes what it started.        *)
FailedRunsStopped ==
    Idle => \A r \in cluster : HasFailed(row[r]) => row[r].desired = "STOPPED"

(* A run that ended as FAILED and is not tracked any more has a failure    *)
(* recorded, the only thing its owner can be shown.                        *)
FailureExplained ==
    Idle => \A r \in (1..nruns) \ cluster : row[r].runner = "FAILED" => HasFailed(row[r])

(* Between two calls, no tracked run is in a status that the next updates  *)
(* would never look at again: a finished runner job, a failed build, a     *)
(* launch without a job.  start_model would take such a run for a running  *)
(* one and never replace it.                                               *)
NoStuckRun ==
    Idle => \A r \in cluster :
                /\ row[r].runner \notin {"STOPPED", "FAILED"}
                /\ InBuildPhase(row[r]) => row[r].builder = "BUILDING"
                /\ ~JobUnknown(r)

(* Between two calls, a run that was replaced is not kept next to its      *)
(* replacement once that one is RUNNING.                                   *)
ReplacedRunsRetired ==
    Idle => \A r, s \in cluster :
                SameModel(r, s) /\ row[r].desired = "REPLACING" /\ row[s].desired = "RUNNING"
                    => row[s].runner # "RUNNING"

(* Between two calls, every run that is wanted and not settled is tracked. *)
(* The docstring of load_active (_model_run_repository.py:75) promises it  *)
(* after a restart.                                                        *)
WantedRunsTracked ==
    Idle => \A r \in 1..nruns :
                row[r].desired # "STOPPED" /\ row[r].runner \notin {"STOPPED", "FAILED"}
                    => r \in cluster

(* run.py:134: the run stopped as replaced makes room for another one that *)
(* is RUNNING.                                                             *)
ReplacedByAnother ==
    [][op.pc = "replace" /\ op.stops # {} =>
          \E s \in cluster \ {Oldest(op.stops)} :
              SameModel(s, Oldest(op.stops)) /\ row[s].runner = "RUNNING"]_vars

(* A run that is being built or launched does not stay so for ever.        *)
StartSettles ==
    \A r \in Runs :
        (r \in cluster /\ row[r].runner \in {NONE, "INITIALIZING"})
            ~> ~(r \in cluster /\ row[r].runner \in {NONE, "INITIALIZING"})

(* A tracked run that is to be stopped ends up out of the cluster.         *)
StopCompletes ==
    \A r \in Runs : (r \in cluster /\ row[r].desired = "STOPPED") ~> (r \notin cluster)
=============================================================================
