---------------------------- MODULE PhalaCluster ----------------------------
(***************************************************************************)
(* The Phala backend: PhalaCluster with the builder and the runner that    *)
(* route their calls through it.  A CVM keeps a task for every model image *)
(* it has been asked to build; the same task is then started and stopped.  *)
(* The process only remembers which CVM has which task (task_client_map),  *)
(* which CVMs there are and which of them takes new builds (the head).     *)
(*                                                                         *)
(* The builder and the runner are only called by ModelRunsService, under   *)
(* its lock: a call is one action, whatever number of requests it makes.   *)
(* In every call, a CVM answers that it accepts models (yes), that it does *)
(* not, or does not answer, its retries included (silent).                 *)
(***************************************************************************)
EXTENDS Naturals, FiniteSets

CONSTANTS
    PhRuns,          \* model runs
    Submission,      \* Submission[r]: the code of run r
    Registry,        \* the CVM in mode registry+runner
    Runners,         \* the CVMs that may be provisioned
    MaxModels,       \* max_models, 0: no limit
    MaxTasks,        \* bound: number of tasks
    MaxRestarts      \* bound: restarts of the process

CVMs == {Registry} \cup Runners
NoCvm == "none"

ASSUME PhalaClusterAssumption ==
    /\ Registry \notin Runners
    /\ NoCvm \notin CVMs
    /\ IsFiniteSet(PhRuns)
    /\ MaxModels \in Nat
    /\ MaxTasks \in Nat
    /\ MaxRestarts \in Nat

VARIABLES
    tasks,       \* tasks[t]: task t as its CVM has it
    platform,    \* platform[c]: "absent", "running", "stopped", in the Phala Cloud
    cvms,        \* cvms: those the process knows
    head,        \* head_id
    taskMap,     \* task_client_map: taskMap[t] is a CVM, or NoCvm
    phRun,       \* phRun[r]: the run as the service has it
    restarts     \* number of restarts so far

phVars == <<tasks, platform, cvms, head, taskMap, phRun, restarts>>

-----------------------------------------------------------------------------
TaskIds == 1..MaxTasks

(* op: the operation the status is about.  "pending" stands for running too. *)
NoTask == [cvm |-> NoCvm, submission |-> NoCvm, op |-> "build", status |-> "none"]

(* A run that is building or running has a task: its job id. *)
NotBegun == [status |-> "none", task |-> 0]
InBuildPhase == {r \in PhRuns : phRun[r].status = "BUILDING"}
InRunPhase == {r \in PhRuns : phRun[r].status \in {"INITIALIZING", "RUNNING"}}

PhInit ==
    /\ tasks = [t \in TaskIds |-> NoTask]
    /\ platform = [c \in CVMs |-> IF c = Registry THEN "running" ELSE "absent"]
    /\ cvms = {Registry}
    /\ head = Registry
    /\ taskMap = [t \in TaskIds |-> NoCvm]
    /\ phRun = [r \in PhRuns |-> NotBegun]
    /\ restarts = 0

(* sorted(..., key: runners before the registry), the first that will do.  *)
Preferred(cs) == IF cs \cap Runners = {} THEN cs ELSE cs \cap Runners

FreshTask == CHOOSE t \in TaskIds : tasks[t].status = "none"
TasksLeft == \E t \in TaskIds : tasks[t].status = "none"

-----------------------------------------------------------------------------
(* ensure_capacity.  Its outcomes: what it leaves of the cluster, and      *)
(* whether it raises.                                                      *)

Outcome(raises, cs, h, p) == [raises |-> raises, cvms |-> cs, head |-> h, platform |-> p]

Unchanged == Outcome(FALSE, cvms, head, platform)
Raised == Outcome(TRUE, cvms, head, platform)

(* _provision_new_runner: the deployment may fail; a CVM may be left in    *)
(* the cloud that the process does not know (the deployment timed out, its *)
(* node has no name, it answers 401); it may never accept models or its    *)
(* hash not be approved: then it is deleted, if that succeeds, and the     *)
(* head stays what it was.                                                 *)
New == {c \in Runners : platform[c] = "absent"}

LeftBehind == {Outcome(TRUE, cvms, head, [platform EXCEPT ![c] = "running"]) : c \in New}
CleanedUp == {Outcome(FALSE, cvms, head, [platform EXCEPT ![c] = p]) : c \in New, p \in {"absent", "running"}}
NewHead == {Outcome(FALSE, cvms \cup {c}, c, [platform EXCEPT ![c] = "running"]) : c \in New}

(* The head is the new CVM although the registry does not know its hash.   *)
ProvisionUnapproved == {Outcome(FALSE, cvms, c, platform) : c \in New}

Provision ==
    IF Registry \in cvms THEN {Raised} \cup LeftBehind \cup CleanedUp \cup NewHead ELSE {Raised}

(* _get_active_model_count: the run that is to be built is one of them,    *)
(* _BuildService.build has set its status.                                 *)
ActiveModels(r) == Cardinality(InBuildPhase \cup InRunPhase \cup {r})

CapReached(r) == MaxModels > 0 /\ ActiveModels(r) >= MaxModels

EnsureCapacity(r, yes, silent) ==
    LET spare == Preferred(yes \ {head}) IN
    IF head \notin cvms \/ CapReached(r) \/ head \in silent THEN {Raised}
    ELSE IF head \in yes THEN {Unchanged}
    ELSE IF spare # {} THEN {Outcome(FALSE, cvms, c, platform) : c \in spare}
    ELSE Provision

-----------------------------------------------------------------------------
(* PhalaModelBuilder and PhalaModelRunner.                                 *)

(* is_built: the images on CVMs that have room. *)
ImagesOf(r, yes) ==
    {t \in TaskIds :
        /\ tasks[t].submission = Submission[r]
        /\ tasks[t].cvm \in yes
        /\ tasks[t].op # "build" \/ tasks[t].status = "completed"}

(* The CVM that has task t, for client_for_task. *)
Routable(t) == taskMap[t] \in cvms
Answers(t) == Routable(t) /\ platform[taskMap[t]] = "running"

(* start_model is accepted, or an error. *)
Started(r, t) ==
    \/ /\ tasks' = [tasks EXCEPT ![t].op = "start", ![t].status = "pending"]
       /\ phRun' = [phRun EXCEPT ![r] = [status |-> "INITIALIZING", task |-> t]]
    \/ /\ phRun' = [phRun EXCEPT ![r] = [status |-> "FAILED", task |-> t]]
       /\ UNCHANGED tasks

Running == {c \in cvms : platform[c] = "running"}

(* The image is there: the run starts at once, no capacity is asked for.   *)
StartBuilt(r) ==
    /\ phRun[r].status = "none"
    /\ \E yes \in SUBSET Running :
        \E t \in ImagesOf(r, yes) :
            /\ tasks[t].cvm \in Preferred({tasks[u].cvm : u \in ImagesOf(r, yes)})
            /\ taskMap' = [taskMap EXCEPT ![t] = tasks[t].cvm]
            /\ Started(r, t)
    /\ UNCHANGED <<platform, cvms, head, restarts>>

(* The task is registered to the CVM that was the head before. *)
StartBuildStaleHead(r) ==
    /\ phRun[r].status = "none"
    /\ \E yes \in SUBSET Running :
        /\ ImagesOf(r, yes) = {}
        /\ \E outcome \in EnsureCapacity(r, yes, {}) :
            /\ ~outcome.raises
            /\ TasksLeft
            /\ platform' = outcome.platform
            /\ cvms' = outcome.cvms
            /\ head' = outcome.head
            /\ tasks' = [tasks EXCEPT ![FreshTask] =
                    [cvm |-> outcome.head, submission |-> Submission[r], op |-> "build", status |-> "pending"]]
            /\ taskMap' = [taskMap EXCEPT ![FreshTask] = head]
            /\ phRun' = [phRun EXCEPT ![r] = [status |-> "BUILDING", task |-> FreshTask]]
    /\ UNCHANGED restarts

(* build: the head is asked to build, its answer may be an error or lost.  *)
StartBuild(r) ==
    /\ phRun[r].status = "none"
    /\ \E yes \in SUBSET Running, silent \in SUBSET cvms :
        /\ yes \cap silent = {}
        /\ cvms \ Running \subseteq silent
        /\ ImagesOf(r, yes) = {}
        /\ \E outcome \in EnsureCapacity(r, yes, silent) :
            LET task == [cvm |-> outcome.head, submission |-> Submission[r], op |-> "build", status |-> "pending"]
                failed == phRun' = [phRun EXCEPT ![r].status = "FAILED"] /\ UNCHANGED taskMap
            IN  /\ platform' = outcome.platform
                /\ cvms' = outcome.cvms
                /\ head' = outcome.head
                /\ \/ failed /\ UNCHANGED tasks
                   \/ /\ ~outcome.raises
                      /\ TasksLeft
                      /\ tasks' = [tasks EXCEPT ![FreshTask] = task]
                      /\ \/ failed
                         \/ /\ taskMap' = [taskMap EXCEPT ![FreshTask] = outcome.head]
                            /\ phRun' = [phRun EXCEPT ![r] = [status |-> "BUILDING", task |-> FreshTask]]
    /\ UNCHANGED restarts

(* load_statuses of the builder, and what on_model_built does of a success: *)
(* one task that is not in the map and nothing is loaded for any run.      *)
BuildPolled(r) ==
    /\ phRun[r].status = "BUILDING"
    /\ \A q \in InBuildPhase : Routable(phRun[q].task)
    /\ Answers(phRun[r].task)
    /\ LET t == phRun[r].task IN
       \/ tasks[t].status = "completed" /\ Started(r, t)
       \/ /\ tasks[t].status = "failed"
          /\ phRun' = [phRun EXCEPT ![r].status = "FAILED"]
          /\ UNCHANGED tasks
    /\ UNCHANGED <<platform, cvms, head, taskMap, restarts>>

(* Only the end of an operation is told from its middle. *)
RunnerStatusUnlessDone(t) ==
    IF tasks[t].status = "pending" THEN "INITIALIZING" ELSE IF tasks[t].op = "stop" THEN "STOPPED" ELSE "RUNNING"

(* get_runner_status of the task. *)
RunnerStatusOf(t) ==
    CASE tasks[t].status = "pending"   -> "INITIALIZING"
      [] tasks[t].status = "completed" -> IF tasks[t].op = "stop" THEN "STOPPED" ELSE "RUNNING"
      [] OTHER                         -> "FAILED"

(* load_statuses of the runner. *)
RunPolled(r) ==
    /\ r \in InRunPhase
    /\ \A q \in InRunPhase : Routable(phRun[q].task)
    /\ Answers(phRun[r].task)
    /\ phRun[r].status # RunnerStatusOf(phRun[r].task)
    /\ phRun' = [phRun EXCEPT ![r].status = RunnerStatusOf(phRun[r].task)]
    /\ UNCHANGED <<tasks, platform, cvms, head, taskMap, restarts>>

StopRun(r) ==
    /\ r \in InRunPhase
    /\ Answers(phRun[r].task)
    /\ tasks[phRun[r].task].status # "failed"
    /\ tasks' = [tasks EXCEPT ![phRun[r].task].op = "stop", ![phRun[r].task].status = "pending"]
    /\ UNCHANGED <<platform, cvms, head, taskMap, phRun, restarts>>

-----------------------------------------------------------------------------
(* A restart: discover, then rebuild_task_map.  Any CVM that does not      *)
(* answer makes it fail, and the process is started again.  The service    *)
(* does not load the runs that were being built (ModelRuns!LoadActive).    *)

(* The tasks whose model is being built or started. *)
RoutableUnlessDone == {"pending"}

(* rebuild_task_map leaves out the tasks that have failed. *)
RoutableStatuses == {"pending", "completed"}

Restart ==
    /\ restarts < MaxRestarts
    /\ restarts' = restarts + 1
    /\ LET up == {c \in CVMs : platform[c] = "running"} IN
        /\ cvms' = up
        /\ \E yes \in SUBSET up :
            IF yes # {} THEN head' \in Preferred(yes)
            ELSE IF up # {} THEN Registry \in up /\ head' = Registry
            ELSE head' = NoCvm
        /\ taskMap' = [t \in TaskIds |-> IF tasks[t].cvm \in up /\ tasks[t].status \in RoutableStatuses
                                         THEN tasks[t].cvm ELSE NoCvm]
    /\ phRun' = [r \in PhRuns |-> IF r \in InBuildPhase THEN [phRun[r] EXCEPT !.status = "lost"] ELSE phRun[r]]
    /\ UNCHANGED <<tasks, platform>>

-----------------------------------------------------------------------------
(* The CVMs and the cloud they run in. *)

TaskEnds(t) ==
    /\ tasks[t].status = "pending"
    /\ platform[tasks[t].cvm] = "running"
    /\ \E s \in {"completed", "failed"} : tasks' = [tasks EXCEPT ![t].status = s]
    /\ UNCHANGED <<platform, cvms, head, taskMap, phRun, restarts>>

(* The container of a started model is gone. *)
ContainerDies(t) ==
    /\ tasks[t].op = "start"
    /\ tasks[t].status = "completed"
    /\ tasks' = [tasks EXCEPT ![t].status = "failed"]
    /\ UNCHANGED <<platform, cvms, head, taskMap, phRun, restarts>>

CvmStops(c) ==
    /\ platform[c] = "running"
    /\ platform' = [platform EXCEPT ![c] = "stopped"]
    /\ UNCHANGED <<tasks, cvms, head, taskMap, phRun, restarts>>

CvmStarts(c) ==
    /\ platform[c] = "stopped"
    /\ platform' = [platform EXCEPT ![c] = "running"]
    /\ UNCHANGED <<tasks, cvms, head, taskMap, phRun, restarts>>

PhNext ==
    \/ \E r \in PhRuns : StartBuilt(r) \/ StartBuild(r) \/ BuildPolled(r) \/ RunPolled(r) \/ StopRun(r)
    \/ Restart
    \/ \E t \in TaskIds : TaskEnds(t) \/ ContainerDies(t)
    \/ \E c \in CVMs : CvmStops(c) \/ CvmStarts(c)

(* The service polls for ever; a CVM that stops may come back in between.  *)
PhFairness == \A r \in PhRuns : SF_phVars(RunPolled(r))

-----------------------------------------------------------------------------
PhTypeOK ==
    /\ tasks \in [TaskIds -> [cvm : CVMs \cup {NoCvm}, submission : {Submission[r] : r \in PhRuns} \cup {NoCvm},
                              op : {"build", "start", "stop"},
                              status : {"none", "pending", "completed", "failed"}]]
    /\ platform \in [CVMs -> {"absent", "running", "stopped"}]
    /\ cvms \subseteq CVMs
    /\ head \in CVMs \cup {NoCvm}
    /\ taskMap \in [TaskIds -> CVMs \cup {NoCvm}]
    /\ phRun \in [PhRuns -> [status : {"none", "BUILDING", "INITIALIZING", "RUNNING", "STOPPED", "FAILED", "lost"},
                             task : 0..MaxTasks]]
    /\ restarts \in 0..MaxRestarts

(* A task is routed to the CVM that has it, whatever CVM was the head when *)
(* it was built and is now, after any number of restarts.                  *)
PhRoutedToOwner == \A t \in TaskIds : taskMap[t] # NoCvm => taskMap[t] = tasks[t].cvm

(* The calls about a run reach its CVM, unless its task has failed or the  *)
(* CVM was not running when the process started.                           *)
PhLiveTasksRoutable ==
    \A r \in InBuildPhase \cup InRunPhase :
        LET t == phRun[r].task IN
        (tasks[t].status # "failed" /\ tasks[t].cvm \in cvms) => Routable(t)

(* There is a CVM to send the next build to, as long as there is any.      *)
PhHeadKnown == cvms # {} => head \in cvms

DiedUnseen(r) == r \in InRunPhase /\ tasks[phRun[r].task].status = "failed"

CannotBeAsked(r) ==
    /\ r \in InRunPhase
    /\ ~Answers(phRun[r].task) \/ \E q \in InRunPhase : ~Routable(phRun[q].task)

(* A run whose container has died is reported FAILED in the end, if its CVM *)
(* can be asked and no other run has a task that is not in the map.        *)
PhFailuresSeen ==
    \A r \in PhRuns : DiedUnseen(r) ~> (~DiedUnseen(r) \/ CannotBeAsked(r))

-----------------------------------------------------------------------------
(* What the code says of itself and does not do, see PROJECT.json.         *)

(* "failed/stopped are excluded since their routing is no longer relevant": *)
(* the task of every run in run phase is in the map of a CVM that is known. *)
PhTrackedTasksRoutable ==
    \A r \in InRunPhase :
        tasks[phRun[r].task].cvm \in cvms => Routable(phRun[r].task)

(* "Global maximum number of models across the entire cluster": a build is *)
(* not refused for it while fewer other models are active.                 *)
PhCapNotBelowMaximum ==
    \A r \in PhRuns :
        (phRun[r].status = "none" /\ CapReached(r))
            => Cardinality(InBuildPhase \cup InRunPhase) >= MaxModels
=============================================================================
